---- MODULE Spec2Model ----
(***************************************************************************)
(* Model of the request engine of the Clado SDK (utils.ts, errors.ts,      *)
(* client.ts as concatenated in src/examples/pagination.ts).               *)
(*                                                                         *)
(* A request() invocation is a process with three suspension points: the   *)
(* awaited fetch, the awaited body read (folded into the response step,    *)
(* as nothing else of the call runs in between) and the awaited sleep.     *)
(***************************************************************************)
EXTENDS Integers, Sequences, FiniteSets, TLC

VARIABLES call, attempt, abandoned, poll, iter, backoff, built, snake, client,
          wire

vars == <<call, attempt, abandoned, poll, iter, backoff, built, snake, client,
         wire>>

\* what the request engine leaves alone
pollerVars == <<poll, iter, backoff, built, snake, client>>
\* what everything but the url builder, the normalizer and the client leaves alone
utilVars == <<built, snake, client, wire>>
\* what the poller, the iterator and the backoff calculator leave alone
requestVars == <<call, attempt, abandoned>>

(***************************************************************************)
(* Bounds of the model.                                                    *)
(***************************************************************************)
\* largest explicit maxRetries option a caller passes in Spec
MaxRetriesArg == 2
\* number of request() invocations in flight together in SpecConc
NumConcurrent == 2

(***************************************************************************)
(* Numbers.  A JavaScript number is modelled as an integer or NaN.         *)
(***************************************************************************)
Num(n) == [nan |-> FALSE, n |-> n]
NaN == [nan |-> TRUE, n |-> 0]
Times(a, k) == IF a.nan THEN NaN ELSE Num(a.n * k)
Min(a, b) == IF a <= b THEN a ELSE b

RECURSIVE Pow2(_)
Pow2(k) == IF k <= 0 THEN 1 ELSE 2 * Pow2(k - 1)

Digits == <<"0", "1", "2", "3", "4", "5", "6", "7", "8", "9">>
IsDigit(ch) == \E i \in 1..10 : Digits[i] = ch
DigitVal(ch) == (CHOOSE i \in 1..10 : Digits[i] = ch) - 1

\* decimal spelling of a non-negative integer, as `${status}` produces it
RECURSIVE Dec(_)
Dec(n) == IF n < 10 THEN <<Digits[n + 1]>> ELSE Dec(n \div 10) \o <<Digits[(n % 10) + 1]>>

(***************************************************************************)
(* parseInt(string, 10) over a string given as its sequence of characters. *)
(***************************************************************************)
RECURSIVE SkipSpace(_)
SkipSpace(s) == IF s # <<>> /\ Head(s) = " " THEN SkipSpace(Tail(s)) ELSE s

RECURSIVE DigitRun(_, _, _)
DigitRun(s, acc, seen) ==
  IF s # <<>> /\ IsDigit(Head(s))
  THEN DigitRun(Tail(s), 10 * acc + DigitVal(Head(s)), TRUE)
  ELSE [seen |-> seen, n |-> acc]

parseInt(s) ==
  LET t == SkipSpace(s)
      neg == t # <<>> /\ Head(t) = "-"
      u == IF t # <<>> /\ Head(t) \in {"-", "+"} THEN Tail(t) ELSE t
      d == DigitRun(u, 0, FALSE)
  IN  IF ~d.seen THEN NaN ELSE Num(IF neg THEN 0 - d.n ELSE d.n)

(***************************************************************************)
(* JSON.  A text is a sequence of lexemes <<class, spelling>>; a value is  *)
(* a record of one shape.                                                  *)
(***************************************************************************)
JV(t, n, s, keys, kids) == [t |-> t, n |-> n, s |-> s, keys |-> keys, kids |-> kids]
JNull == JV("null", 0, "", <<>>, <<>>)
JNum(n) == JV("num", n, "", <<>>, <<>>)
JStr(s) == JV("str", 0, s, <<>>, <<>>)
JArr(kids) == JV("arr", 0, "", <<>>, kids)
JObj(keys, kids) == JV("obj", 0, "", keys, kids)
\* the value of a missing property
Undefined == JV("undefined", 0, "", <<>>, <<>>)

P(ch) == <<"p", ch>>
LNum(d) == <<"num", d>>
LStr(s) == <<"str", s>>
LNull == <<"lit", "null">>
\* a lexeme no JSON text contains
Junk(s) == <<"junk", s>>

PFail == [ok |-> FALSE, val |-> JNull, rest |-> <<>>]
POk(v, rest) == [ok |-> TRUE, val |-> v, rest |-> rest]

RECURSIVE ParseValue(_), ParseElems(_, _), ParseMembers(_, _, _)

ParseValue(s) ==
  IF s = <<>> THEN PFail
  ELSE LET h == Head(s) IN
    CASE h[1] = "num" /\ IsDigit(h[2]) -> POk(JNum(DigitVal(h[2])), Tail(s))
      [] h[1] = "str" -> POk(JStr(h[2]), Tail(s))
      [] h = LNull -> POk(JNull, Tail(s))
      [] h = P("[") ->
           IF Len(s) >= 2 /\ s[2] = P("]")
           THEN POk(JArr(<<>>), SubSeq(s, 3, Len(s)))
           ELSE ParseElems(Tail(s), <<>>)
      [] h = P("{") ->
           IF Len(s) >= 2 /\ s[2] = P("}")
           THEN POk(JObj(<<>>, <<>>), SubSeq(s, 3, Len(s)))
           ELSE ParseMembers(Tail(s), <<>>, <<>>)
      [] OTHER -> PFail

ParseElems(s, acc) ==
  LET r == ParseValue(s) IN
  IF ~r.ok \/ r.rest = <<>> THEN PFail
  ELSE IF Head(r.rest) = P("]") THEN POk(JArr(Append(acc, r.val)), Tail(r.rest))
  ELSE IF Head(r.rest) = P(",") THEN ParseElems(Tail(r.rest), Append(acc, r.val))
  ELSE PFail

ParseMembers(s, keys, kids) ==
  IF Len(s) < 2 \/ s[1][1] # "str" \/ s[2] # P(":") THEN PFail
  ELSE LET r == ParseValue(SubSeq(s, 3, Len(s))) IN
    IF ~r.ok \/ r.rest = <<>> THEN PFail
    ELSE IF Head(r.rest) = P("}")
      THEN POk(JObj(Append(keys, s[1][2]), Append(kids, r.val)), Tail(r.rest))
    ELSE IF Head(r.rest) = P(",")
      THEN ParseMembers(Tail(r.rest), Append(keys, s[1][2]), Append(kids, r.val))
    ELSE PFail

\* JSON.parse(text): ok is FALSE where it throws a SyntaxError
JSONparse(text) ==
  LET r == ParseValue(text) IN
  IF r.ok /\ r.rest = <<>> THEN [ok |-> TRUE, val |-> r.val] ELSE [ok |-> FALSE, val |-> JNull]

\* JSON.stringify(value), the server's side of a response body
RECURSIVE JSONstringify(_), StringifyKids(_, _, _)
JSONstringify(v) ==
  CASE v.t = "num" -> <<LNum(Digits[v.n + 1])>>
    [] v.t = "str" -> <<LStr(v.s)>>
    [] v.t = "arr" -> <<P("[")>> \o StringifyKids(<<>>, v.kids, 1) \o <<P("]")>>
    [] v.t = "obj" -> <<P("{")>> \o StringifyKids(v.keys, v.kids, 1) \o <<P("}")>>
    [] OTHER -> <<LNull>>

StringifyKids(keys, kids, i) ==
  IF i > Len(kids) THEN <<>>
  ELSE (IF i > 1 THEN <<P(",")>> ELSE <<>>)
       \o (IF keys # <<>> THEN <<LStr(keys[i]), P(":")>> ELSE <<>>)
       \o JSONstringify(kids[i])
       \o StringifyKids(keys, kids, i + 1)

\* the text of a body as one string per lexeme
Spell(text) == [i \in 1..Len(text) |-> text[i][2]]

\* json.key
Field(json, key) ==
  IF json.t = "obj" /\ \E i \in 1..Len(json.keys) : json.keys[i] = key
  THEN json.kids[CHOOSE i \in 1..Len(json.keys) : json.keys[i] = key]
  ELSE Undefined

\* JavaScript truthiness of a JSON value
Truthy(v) ==
  CASE v.t \in {"undefined", "null"} -> FALSE
    [] v.t = "num" -> v.n # 0
    [] v.t = "str" -> v.s # ""
    [] OTHER -> TRUE

\* the value as a template literal spells it (an array joins its elements)
RECURSIVE ToStr(_), JoinKids(_, _)
ToStr(v) ==
  CASE v.t = "str" -> IF v.s = "" THEN <<>> ELSE <<v.s>>
    [] v.t = "num" -> Dec(v.n)
    [] v.t = "obj" -> <<"[object Object]">>
    [] v.t = "arr" -> JoinKids(v.kids, 1)
    [] OTHER -> <<v.t>>

JoinKids(kids, i) ==
  IF i > Len(kids) THEN <<>>
  ELSE (IF i > 1 THEN <<",">> ELSE <<>>)
       \o (IF kids[i].t \in {"null", "undefined"} THEN <<>> ELSE ToStr(kids[i]))
       \o JoinKids(kids, i + 1)

(***************************************************************************)
(* errors.ts: the error hierarchy.  A message is a sequence of strings.    *)
(***************************************************************************)
CladoClasses ==
  {"CladoError", "CladoAuthError", "CladoNotFoundError", "CladoRateLimitError",
   "CladoValidationError"}

\* an optional constructor argument
Given(text) == [given |-> TRUE, text |-> text]
Absent == [given |-> FALSE, text |-> <<>>]
OrElse(arg, default) == IF arg.given THEN arg.text ELSE default

Err(class, status, hasRetryAfter, retryAfter, message) ==
  [class |-> class, status |-> status, hasRetryAfter |-> hasRetryAfter,
   retryAfter |-> retryAfter, message |-> message]

BaseMessage(status, message) ==
  <<"API request failed with status ">> \o Dec(status) \o <<": ">> \o message

CladoError(status, message) ==
  Err("CladoError", status, FALSE, Num(0), BaseMessage(status, message))

CladoRateLimitError(retryAfter, message) ==
  Err("CladoRateLimitError", 429, TRUE, retryAfter,
      BaseMessage(429, OrElse(message,
        <<"Rate limit exceeded, retry after ">>
          \o (IF retryAfter.nan THEN <<"NaN">> ELSE
               IF retryAfter.n < 0 THEN <<"-">> \o Dec(0 - retryAfter.n) ELSE Dec(retryAfter.n))
          \o <<"s">>)))

CladoAuthError(message) ==
  Err("CladoAuthError", 401, FALSE, Num(0),
      BaseMessage(401, OrElse(message, <<"Invalid or expired API key">>)))

CladoNotFoundError(message) ==
  Err("CladoNotFoundError", 404, FALSE, Num(0),
      BaseMessage(404, OrElse(message, <<"Resource not found">>)))

CladoValidationError(message) ==
  Err("CladoValidationError", 422, FALSE, Num(0), BaseMessage(422, message))

\* error instanceof CladoError
IsCladoError(e) == e.class \in CladoClasses

\* class X extends Y
Super(class) ==
  IF class = "CladoError" THEN "Error"
  ELSE IF class \in CladoClasses THEN "CladoError"
  ELSE "none"

\* error instanceof cls: cls is the error's class or on its extends chain
InstanceOf(e, cls) ==
  \/ e.class = cls
  \/ Super(e.class) = cls
  \/ Super(e.class) \in CladoClasses /\ Super(Super(e.class)) = cls

\* a value thrown by the platform: not part of the hierarchy, no status
Raw(class, description) == Err(class, 0 - 1, FALSE, Num(0), <<description>>)

(***************************************************************************)
(* utils.ts                                                                *)
(***************************************************************************)
DEFAULT_RETRY_CONFIG == [maxRetries |-> 3, initialDelayMs |-> 1000, maxDelayMs |-> 30000]

\* Math.random() in thousandths: a value of [0, 1)
RandomDraws == {0, 500, 995}

\* variant: the delay is not held to maxDelayMs
calculateBackoff_NoClamp(att, initialDelayMs, maxDelayMs, random) ==
  LET delay == initialDelayMs * Pow2(att)
      jitter == (delay * (random * 2 - 1000)) \div 10000
  IN  delay + jitter

\* calculateBackoff with its Math.random() draw made explicit
calculateBackoff(att, initialDelayMs, maxDelayMs, random) ==
  LET delay == initialDelayMs * Pow2(att)
      jitter == (delay * (random * 2 - 1000)) \div 10000
  IN  Min(delay + jitter, maxDelayMs)

(***************************************************************************)
(* What one fetch settles to: a Response, or a rejection.                  *)
(***************************************************************************)
Header(present, value) == [present |-> present, value |-> value]
NoHeader == Header(FALSE, <<>>)

\* bodyOk is FALSE where reading the body (response.text()) rejects
Response(status, statusText, retryAfter, bodyOk, body) ==
  [kind |-> "response", status |-> status, statusText |-> statusText,
   retryAfter |-> retryAfter, bodyOk |-> bodyOk, body |-> body,
   err |-> Raw("none", "")]

Rejection(err) ==
  [kind |-> "reject", status |-> 0, statusText |-> <<>>, retryAfter |-> NoHeader,
   bodyOk |-> FALSE, body |-> <<>>, err |-> err]

\* response.ok
Ok(o) == o.kind = "response" /\ o.status >= 200 /\ o.status <= 299

\* parseErrorResponse(response)
parseErrorResponse(response) ==
  IF ~response.bodyOk THEN response.statusText
  ELSE LET text == response.body
           p == JSONparse(text)
       IN  IF p.ok /\ p.val.t # "null"
           THEN LET json == p.val IN
                IF Truthy(Field(json, "detail")) THEN ToStr(Field(json, "detail"))
                ELSE IF Truthy(Field(json, "error")) THEN ToStr(Field(json, "error"))
                ELSE IF Truthy(Field(json, "message")) THEN ToStr(Field(json, "message"))
                ELSE Spell(text)
           ELSE IF text # <<>> THEN Spell(text) ELSE response.statusText

(***************************************************************************)
(* What request() does with one settled fetch, up to its next await:       *)
(* return a value, throw, or sleep before the next attempt.                *)
(***************************************************************************)
Step(act, value, err, ms, caught) ==
  [act |-> act, value |-> value, err |-> err, ms |-> ms, caught |-> caught]
Return(value) == Step("return", value, Raw("none", ""), Num(0), <<>>)
Throw(err) == Step("throw", Undefined, err, Num(0), <<>>)
\* caught: the exception the catch block holds while it sleeps, if it does
Sleep(ms, caught) == Step("sleep", Undefined, Raw("none", ""), ms, caught)

\* the while condition
LoopCondition(att, maxRetries) == att <= maxRetries

\* variant: a falsy parsed value is replaced by an empty object
SuccessBranch_FalsyAsEmpty(response) ==
  IF ~response.bodyOk THEN Throw(Raw("TypeError", "error reading a body from connection"))
  ELSE LET p == JSONparse(IF response.body = <<>> THEN <<LNull>> ELSE response.body) IN
       IF p.ok THEN Return(IF Truthy(p.val) THEN p.val ELSE JObj(<<>>, <<>>))
       ELSE Throw(Raw("SyntaxError", "Unexpected token in JSON"))

\* the success branch: response.ok
SuccessBranch(response) ==
  IF ~response.bodyOk THEN Throw(Raw("TypeError", "error reading a body from connection"))
  ELSE IF response.body = <<>> THEN Return(JObj(<<>>, <<>>))
  ELSE LET p == JSONparse(response.body) IN
       IF p.ok THEN Return(p.val)
       ELSE Throw(Raw("SyntaxError", "Unexpected token in JSON"))

\* case 429: the Retry-After header
RetryAfterOf(response) ==
  parseInt(IF response.retryAfter.present /\ response.retryAfter.value # <<>>
           THEN response.retryAfter.value
           ELSE <<"6", "0">>)

RateLimitRetry(retry, att, maxRetries) == retry /\ att < maxRetries

RateLimitDelay(retryAfter) == Times(retryAfter, 1000)

\* variant: the 429 retry waits for the backoff delay, not for Retry-After
RateLimitBranch_Backoff(retry, maxRetries, att, response, errorMessage, random) ==
  LET retryAfter == RetryAfterOf(response) IN
  IF RateLimitRetry(retry, att, maxRetries)
  THEN Sleep(Num(calculateBackoff(att, DEFAULT_RETRY_CONFIG.initialDelayMs,
                                  DEFAULT_RETRY_CONFIG.maxDelayMs, random)), <<>>)
  ELSE Throw(CladoRateLimitError(retryAfter, Given(errorMessage)))

RateLimitBranch(retry, maxRetries, att, response, errorMessage, random) ==
  LET retryAfter == RetryAfterOf(response) IN
  IF RateLimitRetry(retry, att, maxRetries)
  THEN Sleep(RateLimitDelay(retryAfter), <<>>)
  ELSE Throw(CladoRateLimitError(retryAfter, Given(errorMessage)))

\* default: 5xx is retried, anything else is raised
\* variant: the 5xx retry does not look at the budget
ServerErrorRetry_NoBudget(status, retry, att, maxRetries) ==
  status >= 500 /\ retry

\* variant: every status without a case of its own is retried
ServerErrorRetry_AnyStatus(status, retry, att, maxRetries) ==
  retry /\ att < maxRetries

ServerErrorRetry(status, retry, att, maxRetries) ==
  status >= 500 /\ retry /\ att < maxRetries

\* variant: the 5xx delay does not grow with the attempt counter
ServerErrorDelay_FromZero(att, random) ==
  Num(calculateBackoff(0, DEFAULT_RETRY_CONFIG.initialDelayMs,
                       DEFAULT_RETRY_CONFIG.maxDelayMs, random))

ServerErrorDelay(att, random) ==
  Num(calculateBackoff(att, DEFAULT_RETRY_CONFIG.initialDelayMs,
                       DEFAULT_RETRY_CONFIG.maxDelayMs, random))

DefaultBranch(retry, maxRetries, att, response, errorMessage, random) ==
  IF ServerErrorRetry(response.status, retry, att, maxRetries)
  THEN Sleep(ServerErrorDelay(att, random), <<>>)
  ELSE Throw(CladoError(response.status, errorMessage))

\* variant: 422 has no case of its own
ErrorBranch_ValidationAsGeneric(retry, maxRetries, att, response, random) ==
  LET errorMessage == parseErrorResponse(response) IN
  CASE response.status = 401 -> Throw(CladoAuthError(Given(errorMessage)))
    [] response.status = 404 -> Throw(CladoNotFoundError(Given(errorMessage)))
    [] response.status = 429 ->
         RateLimitBranch(retry, maxRetries, att, response, errorMessage, random)
    [] OTHER -> DefaultBranch(retry, maxRetries, att, response, errorMessage, random)

\* the switch on response.status
ErrorBranch(retry, maxRetries, att, response, random) ==
  LET errorMessage == parseErrorResponse(response) IN
  CASE response.status = 401 -> Throw(CladoAuthError(Given(errorMessage)))
    [] response.status = 404 -> Throw(CladoNotFoundError(Given(errorMessage)))
    [] response.status = 422 -> Throw(CladoValidationError(errorMessage))
    [] response.status = 429 ->
         RateLimitBranch(retry, maxRetries, att, response, errorMessage, random)
    [] OTHER -> DefaultBranch(retry, maxRetries, att, response, errorMessage, random)

\* the try block
TryBlock(retry, maxRetries, att, o, random) ==
  IF o.kind = "reject" THEN Throw(o.err)
  ELSE IF Ok(o) THEN SuccessBranch(o)
  ELSE ErrorBranch(retry, maxRetries, att, o, random)

\* variant: the network retry is allowed once more than the loop runs
NetworkRetry_Inclusive(retry, att, maxRetries) == retry /\ att <= maxRetries

NetworkRetry(retry, att, maxRetries) == retry /\ att < maxRetries

\* variant: the network retry waits as if one attempt later
NetworkErrorDelay_NextAttempt(att, random) ==
  Num(calculateBackoff(att + 1, DEFAULT_RETRY_CONFIG.initialDelayMs,
                       DEFAULT_RETRY_CONFIG.maxDelayMs, random))

NetworkErrorDelay(att, random) ==
  Num(calculateBackoff(att, DEFAULT_RETRY_CONFIG.initialDelayMs,
                       DEFAULT_RETRY_CONFIG.maxDelayMs, random))

NetworkError(error) == CladoError(0, <<"Network error: ">> \o error.message)

\* variant: the catch block does not tell the library's errors from others
CatchBlock_NoRethrow(retry, maxRetries, att, error, random) ==
  IF NetworkRetry(retry, att, maxRetries)
  THEN Sleep(NetworkErrorDelay(att, random), <<error>>)
  ELSE Throw(NetworkError(error))

\* the catch block
CatchBlock(retry, maxRetries, att, error, random) ==
  IF IsCladoError(error) THEN Throw(error)
  ELSE IF NetworkRetry(retry, att, maxRetries)
       THEN Sleep(NetworkErrorDelay(att, random), <<error>>)
       ELSE Throw(NetworkError(error))

\* one iteration of the loop from the settled fetch on
Iteration(retry, maxRetries, att, o, random) ==
  LET t == TryBlock(retry, maxRetries, att, o, random) IN
  IF t.act = "throw" THEN CatchBlock(retry, maxRetries, att, t.err, random) ELSE t

\* variant: a rate-limit retry does not count
NextAttempt_RateLimitFree(att, kind) == IF kind = "429" THEN att ELSE att + 1

\* attempt++ after a sleep; kind is the branch that slept
NextAttempt(att, kind) == att + 1

\* the throw after the loop
FallThrough(lastError) ==
  IF lastError # <<>> THEN lastError[1] ELSE CladoError(0, <<"Request failed after retries">>)

\* variant: one module-level counter for all invocations
AttemptCell_Shared(c) == 1

\* the local variable `attempt` of invocation c: one per invocation
AttemptCell(c) == c

(***************************************************************************)
(* Inputs: the options callers pass and the outcomes the network gives.    *)
(***************************************************************************)
\* an option is <<>> when the caller leaves it out
RetryOpts == {<<>>, <<TRUE>>, <<FALSE>>}
MaxRetriesOpts == {<<>>} \cup {<<n>> : n \in (0 - 1)..MaxRetriesArg}

OkPayloads ==
  {JObj(<<"total">>, <<JNum(1)>>), JArr(<<JNum(1), JNull>>), JNull, JNum(0),
   JObj(<<>>, <<>>), JStr("")}

\* non-empty texts that are not JSON
BadBodies ==
  {<<Junk("<html>")>>, <<P("{"), LStr("total"), P(":")>>, <<LNum("1"), LNum("1")>>}

OkOutcomes ==
  {Response(200, <<"OK">>, NoHeader, TRUE, b) :
     b \in {<<>>} \cup {JSONstringify(v) : v \in OkPayloads} \cup BadBodies}
  \cup {Response(204, <<>>, NoHeader, TRUE, <<>>),
        Response(201, <<>>, NoHeader, FALSE, <<>>)}

ErrorBodies ==
  {<<>>, JSONstringify(JObj(<<"detail">>, <<JStr("bad key")>>)),
   JSONstringify(JObj(<<"code", "message">>, <<JNum(7), JStr("try later")>>)),
   <<Junk("Bad Gateway")>>}

ErrorOutcomes ==
  {Response(st, <<>>, NoHeader, TRUE, b) :
     st \in {400, 401, 404, 422, 500, 503}, b \in ErrorBodies}
  \cup {Response(st, <<"Status Phrase">>, NoHeader, ok, <<>>) :
          st \in {401, 500}, ok \in BOOLEAN}
  \cup {Response(st, <<>>, NoHeader, TRUE, <<>>) : st \in {304, 403, 409}}

RetryAfterHeaders ==
  {NoHeader, Header(TRUE, <<>>), Header(TRUE, <<"2">>), Header(TRUE, <<"1", "2">>),
   Header(TRUE, <<"W", "e", "d", ",">>), Header(TRUE, <<"3", "s">>)}

RateLimitOutcomes ==
  {Response(429, <<>>, h, TRUE, b) :
     h \in RetryAfterHeaders,
     b \in {<<>>, JSONstringify(JObj(<<"detail">>, <<JStr("slow down")>>))}}

Rejections ==
  {Rejection(Raw("TypeError", "connection refused")),
   Rejection(Raw("NonError", "aborted"))}

Outcomes == OkOutcomes \cup ErrorOutcomes \cup RateLimitOutcomes \cup Rejections

\* the inputs of the concurrent specification
ConcRetryOpts == {<<>>, <<FALSE>>}
ConcMaxRetriesOpts == {<<0>>, <<1>>}
ConcRandomDraws == {995}
ConcOutcomes ==
  {Response(200, <<>>, NoHeader, TRUE, JSONstringify(JObj(<<"total">>, <<JNum(1)>>))),
   Response(401, <<>>, NoHeader, TRUE, <<>>),
   Response(429, <<>>, Header(TRUE, <<"2">>), TRUE, <<>>),
   Response(500, <<>>, NoHeader, TRUE, <<>>),
   Rejection(Raw("TypeError", "connection refused"))}

(***************************************************************************)
(* The state of one request() invocation.                                  *)
(***************************************************************************)
NoOutcome ==
  [kind |-> "none", status |-> 0, statusText |-> <<>>, retryAfter |-> NoHeader,
   bodyOk |-> FALSE, body |-> <<>>, err |-> Raw("none", "")]
NoStep == Step("none", Undefined, Raw("none", ""), Num(0), <<>>)

\* pc: idle, fetching (fetch awaited), sleeping (sleep awaited), done.
\* retry, maxRetries, lastError are the locals of request(); step is what the
\* last iteration did; the rest records what happened, for the properties.
Idle ==
  [pc |-> "idle", retry |-> TRUE, maxRetries |-> 0, maxRetriesOpt |-> <<>>,
   lastError |-> <<>>, step |-> NoStep, last |-> NoOutcome,
   nFetch |-> 0, nSleep |-> 0, only5xx |-> TRUE,
   retries429 |-> 0, retries5xx |-> 0, retriesNet |-> 0]

\* which branch put the invocation to sleep
SleepKind(o) ==
  IF o.kind = "response" /\ o.status = 429 THEN "429"
  ELSE IF o.kind = "response" /\ ~Ok(o) THEN "5xx" ELSE "net"

\* the head of the while loop: the next fetch, or the throw after the loop
LoopHead(rec, att) ==
  IF LoopCondition(att, rec.maxRetries)
  THEN [rec EXCEPT !.pc = "fetching", !.nFetch = @ + 1]
  ELSE [rec EXCEPT !.pc = "done", !.step = Throw(FallThrough(rec.lastError))]

\* lastError = error instanceof Error ? error : new Error(String(error))
AsError(error) ==
  IF error.class = "NonError" THEN [error EXCEPT !.class = "Error"] ELSE error

(***************************************************************************)
(* client.ts: waitForDeepResearch.                                         *)
(***************************************************************************)
\* status.status of a payload
StatusOf(payload) == Field(payload, "status")

\* variant: the timeout check is left out
PollTimedOut_Never(elapsed, timeout) == FALSE

\* variant: the check allows two seconds more than the timeout
PollTimedOut_Grace(elapsed, timeout) == elapsed > timeout + 2000

\* Date.now() - startTime > timeout
PollTimedOut(elapsed, timeout) == elapsed > timeout

\* new CladoError(500, status.error ?? "Deep research job failed")
JobFailedError(payload) ==
  LET error == Field(payload, "error") IN
  CladoError(500, IF error.t \in {"undefined", "null"}
                  THEN <<"Deep research job failed">> ELSE ToStr(error))

\* new CladoError(408, `Deep research job timed out after ${timeout}ms`)
JobTimeoutError(timeout) ==
  CladoError(408, <<"Deep research job timed out after ">> \o Dec(timeout) \o <<"ms">>)

\* variant: a failed job is handled like a job still running
PollIteration_FailedIsPending(fetched, elapsed, timeout, pollInterval) ==
  IF fetched.act = "throw" THEN fetched
  ELSE IF fetched.value.t \in {"null", "undefined"}
       THEN Throw(Raw("TypeError", "Cannot read properties of null"))
  ELSE IF StatusOf(fetched.value) = JStr("completed") THEN Return(fetched.value)
  ELSE IF PollTimedOut(elapsed, timeout) THEN Throw(JobTimeoutError(timeout))
  ELSE Sleep(Num(pollInterval), <<>>)

\* variant: a status fetch that raises is taken for a job still running
PollIteration_ErrorIsPending(fetched, elapsed, timeout, pollInterval) ==
  IF fetched.act = "throw"
  THEN IF PollTimedOut(elapsed, timeout) THEN Throw(JobTimeoutError(timeout))
       ELSE Sleep(Num(pollInterval), <<>>)
  ELSE IF fetched.value.t \in {"null", "undefined"}
       THEN Throw(Raw("TypeError", "Cannot read properties of null"))
  ELSE IF StatusOf(fetched.value) = JStr("completed") THEN Return(fetched.value)
  ELSE IF StatusOf(fetched.value) = JStr("failed") THEN Throw(JobFailedError(fetched.value))
  ELSE IF PollTimedOut(elapsed, timeout) THEN Throw(JobTimeoutError(timeout))
  ELSE Sleep(Num(pollInterval), <<>>)

\* variant: the timeout is checked before the status is looked at
PollIteration_TimeoutFirst(fetched, elapsed, timeout, pollInterval) ==
  IF fetched.act = "throw" THEN fetched
  ELSE IF PollTimedOut(elapsed, timeout) THEN Throw(JobTimeoutError(timeout))
  ELSE IF fetched.value.t \in {"null", "undefined"}
       THEN Throw(Raw("TypeError", "Cannot read properties of null"))
  ELSE IF StatusOf(fetched.value) = JStr("completed") THEN Return(fetched.value)
  ELSE IF StatusOf(fetched.value) = JStr("failed") THEN Throw(JobFailedError(fetched.value))
  ELSE Sleep(Num(pollInterval), <<>>)

\* one iteration of the while (true) loop from the settled status fetch on;
\* fetched is what getDeepResearchStatus did: Return(payload) or Throw(error)
PollIteration(fetched, elapsed, timeout, pollInterval) ==
  IF fetched.act = "throw" THEN fetched
  ELSE IF fetched.value.t \in {"null", "undefined"}
       THEN Throw(Raw("TypeError", "Cannot read properties of null"))
  ELSE IF StatusOf(fetched.value) = JStr("completed") THEN Return(fetched.value)
  ELSE IF StatusOf(fetched.value) = JStr("failed") THEN Throw(JobFailedError(fetched.value))
  ELSE IF PollTimedOut(elapsed, timeout) THEN Throw(JobTimeoutError(timeout))
  ELSE Sleep(Num(pollInterval), <<>>)

\* the options of waitForDeepResearch: <<pollInterval, timeout>>, each <<>>
\* when left out
PollOptions ==
  {<<<<>>, <<0>>>>, <<<<>>, <<3000>>>>, <<<<1000>>, <<2000>>>>, <<<<200000>>, <<>>>>}

\* how long a status fetch takes, in ms
FetchDurations == {0, 1500}

JobPayload(status, extraKeys, extraKids) ==
  JObj(<<"job_id", "status">> \o extraKeys, <<JStr("job-123"), JStr(status)>> \o extraKids)

PendingPayloads ==
  {JobPayload("pending", <<>>, <<>>), JobPayload("searching", <<>>, <<>>),
   JobPayload("in_progress", <<>>, <<>>)}

\* what a status fetch gives: request() returns a payload or raises
StatusFetches ==
  {Return(v) : v \in PendingPayloads}
  \cup {Return(JobPayload("completed", <<"total">>, <<JNum(1)>>)),
        Return(JobPayload("failed", <<"error">>, <<JStr("x")>>)),
        Return(JobPayload("failed", <<>>, <<>>)),
        Return(JobPayload("failed", <<"error">>, <<JNull>>)),
        Return(JObj(<<>>, <<>>)),
        Return(JNull),
        Throw(CladoNotFoundError(Given(<<"Job not found">>))),
        Throw(CladoAuthError(Given(<<"Invalid API key">>))),
        Throw(CladoError(408, <<"Request Timeout">>)),
        Throw(CladoError(503, <<"unavailable">>))}

\* pc: idle, fetching (getDeepResearchStatus awaited), sleeping, done.
\* log: the status of each payload fetched; sleeps: each sleep's duration;
\* lateFetches: the status fetches started with the timeout already exceeded.
PollIdle ==
  [pc |-> "idle", pollInterval |-> 0, timeout |-> 0, startTime |-> 0, now |-> 0,
   step |-> NoStep, last |-> NoStep, nFetch |-> 0, nSleep |-> 0,
   log |-> <<>>, sleeps |-> <<>>, lateFetches |-> 0]

(***************************************************************************)
(* client.ts: searchPeopleAll, an async generator.                         *)
(***************************************************************************)
\* the largest total the small servers report
MaxTotal == 3
\* nReq counts the page requests up to MaxRequests and stays there
MaxRequests == MaxTotal + 2
Count(n) == IF n < MaxRequests THEN n + 1 ELSE n

Max(a, b) == IF a >= b THEN a ELSE b

\* variant: the caller's searchId and offset are spread over the locals
PageRequest_CallerWins(optSearchId, optOffset, searchId, offset, limit) ==
  [searchId |-> IF optSearchId # <<>> THEN optSearchId ELSE searchId,
   offset |-> IF optOffset # <<>> THEN optOffset[1] ELSE offset,
   limit |-> limit]

\* { ...options, searchId, offset, limit }: the locals come after the spread
\* and replace what the caller put under the same keys
PageRequest(optSearchId, optOffset, searchId, offset, limit) ==
  [searchId |-> searchId, offset |-> offset, limit |-> limit]

\* the page sizes a server may answer a request with.  exact: the
\* min(limit, total - offset) items from the offset on; any: at most limit.
PageSizes(mode, total, req) ==
  IF mode = "exact" THEN {Max(0, Min(req.limit, total - req.offset))}
  ELSE 0..Min(req.limit, MaxTotal + 1)

\* pc: idle, created (the generator object exists, its body has not run),
\* fetching (searchPeople awaited), yielded (suspended at yield), done.
\* searchId, offset, limit are the locals; req is the last request issued;
\* the response held has search_id pageSearchId and the items pageStart+1 ..
\* pageStart+pageLen of the server, and index of them have been yielded.  yielded, received, nReq, inflight,
\* stopped, reqAtStop, ended are history.
IterIdle ==
  [pc |-> "idle", total |-> 0, mode |-> "exact", limitOpt |-> <<>>, optOffset |-> <<>>,
   optSearchId |-> <<>>,
   searchId |-> <<>>, offset |-> 0, limit |-> 0,
   req |-> [searchId |-> <<>>, offset |-> 0, limit |-> 0],
   pageSearchId |-> "", pageStart |-> 0, pageLen |-> 0, index |-> 0,
   yielded |-> <<>>, received |-> 0, nReq |-> 0, inflight |-> 0,
   stopped |-> FALSE, reqAtStop |-> 0, ended |-> "no"]

\* await this.searchPeople({ ...options, searchId, offset, limit }) is issued
IssueRequest(rec) ==
  [rec EXCEPT !.pc = "fetching",
              !.req = PageRequest(rec.optSearchId, rec.optOffset, rec.searchId,
                                      rec.offset, rec.limit),
              !.nReq = Count(@),
              !.inflight = @ + 1]

\* variant: the loop ends only when the offset has passed the total
LastPage_PastTotal(rec) ==
  rec.pageLen < rec.limit \/ rec.offset + rec.pageLen > rec.total

\* response.results.length < limit || offset + response.results.length >= response.total
LastPage(rec) ==
  rec.pageLen < rec.limit \/ rec.offset + rec.pageLen >= rec.total

\* after the for loop over the page: break, or move on and fetch again
EndOfPage(rec) ==
  IF LastPage(rec) THEN [rec EXCEPT !.pc = "done", !.ended = "complete"]
  ELSE IssueRequest([rec EXCEPT !.searchId = <<rec.pageSearchId>>, !.offset = @ + rec.pageLen])

\* yield result: the generator suspends with the next item of the page
YieldItem(rec) ==
  [rec EXCEPT !.pc = "yielded", !.index = @ + 1,
              !.yielded = Append(@, rec.pageStart + rec.index + 1)]

\* variant: with the last item of a full page the next page is requested
\* ahead of the consumer
Advance_Prefetch(rec) ==
  IF rec.index < rec.pageLen
  THEN IF rec.index + 1 = rec.pageLen /\ ~LastPage(rec)
       THEN [YieldItem(rec) EXCEPT !.nReq = Count(@), !.inflight = @ + 1]
       ELSE YieldItem(rec)
  ELSE EndOfPage(rec)

\* the body from the for loop on, up to the next yield, await or break
Advance(rec) ==
  IF rec.index < rec.pageLen THEN YieldItem(rec) ELSE EndOfPage(rec)

\* variant: a generator told to return goes on with the loop
GeneratorReturn_RunsOn(rec) ==
  [EndOfPage(rec) EXCEPT !.stopped = TRUE, !.reqAtStop = rec.nReq]

\* the consumer leaves its for await loop: return() on a generator suspended
\* at yield completes it there, and nothing after the yield runs
GeneratorReturn(rec) ==
  [rec EXCEPT !.pc = "done", !.ended = "stopped", !.stopped = TRUE,
              !.reqAtStop = rec.nReq]

\* <<total, limit option>> of the iterations tried; <<>> is no limit given
PageInputs ==
  ((0..MaxTotal) \X {<<0>>, <<1>>, <<2>>, <<>>}) \cup {<<31, <<30>>>>, <<31, <<>>>>}

\* the caller's own offset option, which the iterator overrides
CallerOffsets == {<<>>, <<1>>}
\* the caller's own searchId option, likewise
CallerSearchIds == {<<>>, <<"s0">>}

SearchIds == {"s1", "s2"}

(***************************************************************************)
(* utils.ts: calculateBackoff called on its own.                           *)
(***************************************************************************)
\* the largest attempt number tried
BackoffMaxAttempt == 10

\* <<initialDelayMs, maxDelayMs>>
BackoffConfigs == {<<1000, 30000>>, <<1000, 5000>>}

\* Math.random() in thousandths, every 0.005 from 0 to 0.995
FineRandomDraws == {5 * k : k \in 0..199}

\* a call of calculateBackoff: its arguments, its draw and, once it has run,
\* its result
BackoffIdle ==
  [pc |-> "idle", att |-> 0, initialDelayMs |-> 0, maxDelayMs |-> 0,
   random |-> 0, result |-> 0]

(***************************************************************************)
(* utils.ts: buildUrl.  A text is a sequence of pieces: "/", "?", "&", "=" *)
(* and "," stand for themselves, a base URL starts with its origin         *)
(* (scheme and host) as one piece, any other piece is a run of characters  *)
(* that need no escaping.                                                  *)
(***************************************************************************)
JBool(b) == JV(IF b THEN "true" ELSE "false", 0, "", <<>>, <<>>)

\* the index of the last "/" of a path, 0 when it has none
RECURSIVE LastSlash(_, _)
LastSlash(path, i) ==
  IF i = 0 THEN 0 ELSE IF path[i] = "/" THEN i ELSE LastSlash(path, i - 1)

\* new URL(path, baseUrl): the reference resolved against the base.  The
\* path of an http(s) URL is never empty; an empty reference keeps the base's
\* path, one starting with "/" replaces it, any other replaces what follows
\* the base path's last "/".
ResolveUrl(path, baseUrl) ==
  LET origin == <<Head(baseUrl)>>
      basePath == IF Tail(baseUrl) = <<>> THEN <<"/">> ELSE Tail(baseUrl)
  IN  [origin |-> origin,
       path |-> IF path = <<>> THEN basePath
                ELSE IF Head(path) = "/" THEN path
                ELSE SubSeq(basePath, 1, LastSlash(basePath, Len(basePath))) \o path,
       query |-> <<>>]

\* the application/x-www-form-urlencoded spelling of one piece
EncodePiece(piece) ==
  CASE piece = "," -> "%2C"
    [] piece = "/" -> "%2F"
    [] piece = "?" -> "%3F"
    [] piece = "&" -> "%26"
    [] piece = "=" -> "%3D"
    [] piece = " " -> "+"
    [] OTHER -> piece

FormEncode(text) == [i \in 1..Len(text) |-> EncodePiece(text[i])]

\* url.searchParams.append(key, value): one more pair at the end
SearchParamsAppend(query, key, value) == Append(query, <<key, value>>)

\* url.searchParams.set(key, value): the first pair of that key takes the
\* value and the key's other pairs go; a new key is appended
SearchParamsSet(query, key, value) ==
  IF \E i \in 1..Len(query) : query[i][1] = key
  THEN LET first == CHOOSE i \in 1..Len(query) :
                      query[i][1] = key /\ \A j \in 1..(i - 1) : query[j][1] # key
           kept == SelectSeq([i \in 1..Len(query) |-> <<i, query[i]>>],
                             LAMBDA e : e[2][1] # key \/ e[1] = first)
       IN  [i \in 1..Len(kept) |->
              IF kept[i][1] = first THEN <<key, value>> ELSE kept[i][2]]
  ELSE Append(query, <<key, value>>)

\* for (const item of value) url.searchParams.append(key, String(item))
RECURSIVE AppendItems(_, _, _, _)
AppendItems(query, key, items, i) ==
  IF i > Len(items) THEN query
  ELSE AppendItems(SearchParamsAppend(query, key, ToStr(items[i])), key, items, i + 1)

\* variant: an array is set as one value, String(value) joining it with commas
ApplyParam_Joined(query, key, value) ==
  IF value.t \in {"undefined", "null"} THEN query
  ELSE SearchParamsSet(query, key, ToStr(value))

\* variant: undefined and null are not skipped
ApplyParam_NoSkip(query, key, value) ==
  IF value.t = "arr" THEN AppendItems(query, key, value.kids, 1)
  ELSE SearchParamsSet(query, key, ToStr(value))

\* the body of the loop over Object.entries(params) for one entry
ApplyParam(query, key, value) ==
  IF value.t \in {"undefined", "null"} THEN query
  ELSE IF value.t = "arr" THEN AppendItems(query, key, value.kids, 1)
  ELSE SearchParamsSet(query, key, ToStr(value))

RECURSIVE ApplyParams(_, _, _)
ApplyParams(query, params, i) ==
  IF i > Len(params) THEN query
  ELSE ApplyParams(ApplyParam(query, params[i][1], params[i][2]), params, i + 1)

\* the serialized query: key=value pairs joined by "&"
RECURSIVE SerializeQuery(_, _)
SerializeQuery(query, i) ==
  IF i > Len(query) THEN <<>>
  ELSE (IF i > 1 THEN <<"&">> ELSE <<>>)
       \o FormEncode(<<query[i][1]>>) \o <<"=">> \o FormEncode(query[i][2])
       \o SerializeQuery(query, i + 1)

\* url.toString(): a "?" and the query follow the path when the query has pairs
UrlToString(url) ==
  url.origin \o url.path
  \o (IF url.query = <<>> THEN <<>> ELSE <<"?">> \o SerializeQuery(url.query, 1))

\* buildUrl(baseUrl, path, params); params is <<>> when left out, else
\* <<entries>> with entries the sequence of <<key, value>> of Object.entries
buildUrl(baseUrl, path, params) ==
  LET url == ResolveUrl(path, baseUrl) IN
  UrlToString(IF params = <<>> THEN url
              ELSE [url EXCEPT !.query = ApplyParams(@, params[1], 1)])

\* the most entries a parameter mapping has
MaxParams == 2

ParamKeys == <<"query", "companies", "limit">>

ParamValues ==
  {Undefined, JNull, JStr("test"), JStr(""), JNum(10), JBool(FALSE),
   JArr(<<>>), JArr(<<JStr("Google"), JStr("Meta")>>),
   JArr(<<JStr("Meta"), JStr("Google"), JStr("Meta")>>)}

\* the mappings tried: the first n keys, each with any of the values
ParamMappings ==
  UNION {{[i \in 1..n |-> <<ParamKeys[i], f[i]>>] : f \in [1..n -> ParamValues]} :
           n \in 0..MaxParams}

BaseUrls ==
  {<<"https://api.example.com">>, <<"https://api.example.com", "/">>,
   <<"https://api.example.com", "/", "v1">>,
   <<"https://api.example.com", "/", "v1", "/">>}

Paths == {<<"/", "api", "/", "search">>, <<"api", "/", "search">>, <<>>}

\* a call of buildUrl: its arguments and, once it has run, the URL
BuiltIdle ==
  [pc |-> "idle", baseUrl |-> <<"https://api.example.com">>, path |-> <<>>,
   params |-> <<>>, url |-> <<>>]

(***************************************************************************)
(* utils.ts: toSnakeCase.  An object is the sequence of its own entries    *)
(* <<key, value>> in property order, every key once.                       *)
(***************************************************************************)
\* the own properties of snakeCaseMap
snakeCaseMap ==
  <<<<"searchId", "search_id">>, <<"advancedFiltering", "advanced_filtering">>,
    <<"linkedinUrl", "linkedin_url">>, <<"enrichEmail", "enrich_email">>,
    <<"enrichPhone", "enrich_phone">>, <<"includePosts", "include_posts">>,
    <<"includeExperience", "include_experience">>,
    <<"includeEducation", "include_education">>, <<"postUrl", "post_url">>,
    <<"reactionType", "reaction_type">>>>

InTable(key) == \E i \in 1..Len(snakeCaseMap) : snakeCaseMap[i][1] = key
TableName(key) == snakeCaseMap[CHOOSE i \in 1..Len(snakeCaseMap) : snakeCaseMap[i][1] = key][2]

\* snakeCaseMap is an object literal: a key it does not own is looked up on
\* Object.prototype, where these names are functions
InheritedNames == {"constructor", "toString"}

\* a function used as a property key is turned into its source text
FunctionText(name) ==
  IF name = "constructor" THEN "function Object() { [native code] }"
  ELSE "function toString() { [native code] }"

\* snakeCaseMap[key] ?? key, as the property key that result[snakeKey] uses
SnakeKey(key) ==
  IF InTable(key) THEN TableName(key)
  ELSE IF key \in InheritedNames THEN FunctionText(key)
  ELSE key

\* result[key] = value: an existing property takes the value where it is, a
\* new one is added at the end
SetProperty(obj, key, value) ==
  IF \E i \in 1..Len(obj) : obj[i][1] = key
  THEN [i \in 1..Len(obj) |-> IF obj[i][1] = key THEN <<key, value>> ELSE obj[i]]
  ELSE Append(obj, <<key, value>>)

RECURSIVE SnakeLoop(_, _, _)
SnakeLoop(result, entries, i) ==
  IF i > Len(entries) THEN result
  ELSE SnakeLoop(SetProperty(result, SnakeKey(entries[i][1]), entries[i][2]),
                 entries, i + 1)

\* toSnakeCase(obj): the mapping returned, and obj as the call leaves it
\* (no statement writes to it)
toSnakeCase(obj) == [result |-> SnakeLoop(<<>>, obj, 1), obj |-> obj]

\* the most keys an input has
MaxKeys == 2

InputKeys == {"searchId", "search_id", "linkedinUrl", "query", "customField", "constructor"}

InputValues == {JStr("abc"), JNum(10), Undefined}

\* the inputs tried: up to MaxKeys different keys in any order, any values
InputObjects ==
  UNION {{o \in [1..n -> InputKeys \X InputValues] :
            \A i, j \in 1..n : i # j => o[i][1] # o[j][1]} : n \in 0..MaxKeys}

\* a call of toSnakeCase: the input, and once it has run the result and the
\* input as it is afterwards
SnakeIdle == [pc |-> "idle", obj |-> <<>>, result |-> <<>>, objAfter |-> <<>>]

(***************************************************************************)
(* client.ts: the CladoClient constructor and the requests its methods     *)
(* issue.  The environment variable CLADO_API_KEY is <<>> when unset, else  *)
(* <<value>>.                                                              *)
(***************************************************************************)
\* the request headers: Authorization and Accept, the caller's headers
\* spread over them, then Content-Type when there is a body.  A header is
\* <<name, value>>, the value a sequence of strings.
RECURSIVE SpreadHeaders(_, _, _)
SpreadHeaders(target, headers, i) ==
  IF i > Len(headers) THEN target
  ELSE SpreadHeaders(SetProperty(target, headers[i][1], headers[i][2]), headers, i + 1)

RequestHeaders(apiKey, hasBody, headers) ==
  LET spread == SpreadHeaders(<<<<"Authorization", <<"Bearer ", apiKey>>>>,
                                <<"Accept", <<"application/json">>>>>>, headers, 1)
  IN  IF hasBody THEN SetProperty(spread, "Content-Type", <<"application/json">>)
      ELSE spread

\* variant: the environment wins over the explicit option
ResolveApiKey_EnvFirst(apiKeyOpt, env) ==
  IF env # <<>> /\ env[1] # "" THEN [ok |-> TRUE, apiKey |-> env[1], reads |-> 1]
  ELSE IF apiKeyOpt # <<>> /\ apiKeyOpt[1] # ""
       THEN [ok |-> TRUE, apiKey |-> apiKeyOpt[1], reads |-> 1]
  ELSE [ok |-> FALSE, apiKey |-> "", reads |-> 1]

\* the constructor's choice of credential: options.apiKey when truthy, else
\* Deno.env.get("CLADO_API_KEY") when truthy, else it throws; reads is the
\* number of environment lookups made
ResolveApiKey(apiKeyOpt, env) ==
  IF apiKeyOpt # <<>> /\ apiKeyOpt[1] # ""
  THEN [ok |-> TRUE, apiKey |-> apiKeyOpt[1], reads |-> 0]
  ELSE IF env # <<>> /\ env[1] # "" THEN [ok |-> TRUE, apiKey |-> env[1], reads |-> 1]
  ELSE [ok |-> FALSE, apiKey |-> "", reads |-> 1]

\* the methods that issue a request: name, HTTP method, whether a body is sent
Operations ==
  {<<"searchPeople", "GET", FALSE>>, <<"initiateDeepResearch", "POST", TRUE>>,
   <<"getDeepResearchStatus", "GET", FALSE>>, <<"cancelDeepResearch", "POST", FALSE>>,
   <<"continueDeepResearch", "POST", TRUE>>, <<"continueDeepResearch", "POST", FALSE>>,
   <<"getContactInfo", "GET", FALSE>>, <<"scrapeLinkedInProfile", "GET", FALSE>>,
   <<"getLinkedInProfile", "GET", FALSE>>, <<"getPostReactions", "GET", FALSE>>,
   <<"getCredits", "GET", FALSE>>}

\* the most requests one client is seen to issue
MaxCalls == 2

ApiKeyOpts == {<<>>, <<"">>, <<"lk_explicit">>}
EnvValues == {<<>>, <<"">>, <<"lk_env">>, <<"lk_other">>}

\* pc: idle (no client), ready, failed (the constructor threw).  apiKey is
\* the private field; apiKeyOpt, envAtConstruction, envReads and sent (the
\* requests issued, each with its headers) are history.
ClientIdle ==
  [pc |-> "idle", env |-> <<>>, apiKey |-> "", apiKeyOpt |-> <<>>,
   envAtConstruction |-> <<>>, envReads |-> 0, error |-> <<>>, sent |-> <<>>]

(***************************************************************************)
(* The fetches one request() invocation puts on the wire.                  *)
(***************************************************************************)
\* variant: the methods switch retrying off for POST
ClientOptions_PostOnce(operation) ==
  [operation |-> operation[1], method |-> operation[2], hasBody |-> operation[3],
   headers |-> <<>>,
   retryOpt |-> IF operation[2] = "POST" THEN <<FALSE>> ELSE <<>>,
   maxRetriesOpt |-> <<>>]

\* the options a client method hands to request(): method and body for a
\* POST, nothing for a GET; never headers, retry or maxRetries
ClientOptions(operation) ==
  [operation |-> operation[1], method |-> operation[2], hasBody |-> operation[3],
   headers |-> <<>>, retryOpt |-> <<>>, maxRetriesOpt |-> <<>>]

\* headers a direct caller of request() supplies
CallerHeaders ==
  {<<>>,
   <<<<"X-Trace", <<"t1">>>>>>,
   <<<<"Authorization", <<"Basic abc">>>>>>,
   <<<<"Accept", <<"text/plain">>>>>>,
   <<<<"Content-Type", <<"text/plain">>>>>>,
   <<<<"Accept", <<"text/csv">>>>, <<"Content-Type", <<"text/csv">>>>>>}

\* options of direct calls of request()
DirectOptions ==
  {[operation |-> "request", method |-> m, hasBody |-> b, headers |-> h,
    retryOpt |-> ro, maxRetriesOpt |-> mo] :
     m \in {"GET", "POST"}, b \in BOOLEAN, h \in CallerHeaders,
     ro \in {<<>>, <<FALSE>>}, mo \in {<<1>>}}

ApiKeys == {"lk_a", "lk_b"}

\* the init object of one fetch
FetchInit(method, requestHeaders, hasBody) ==
  [method |-> method, headers |-> requestHeaders, hasBody |-> hasBody]

\* options and apiKey are the arguments, requestHeaders the local; sent (the
\* fetches started, in order) and onlyTransient (every outcome so far a 5xx
\* response or a transport failure) are history.
WireIdle ==
  [options |-> ClientOptions(<<"", "GET", FALSE>>), apiKey |-> "",
   requestHeaders |-> <<>>, sent |-> <<>>, onlyTransient |-> TRUE]

TypeOK ==
  \A c \in DOMAIN call :
    /\ call[c].pc \in {"idle", "fetching", "sleeping", "done"}
    /\ call[c].retry \in BOOLEAN
    /\ call[c].maxRetries \in Int
    /\ call[c].nFetch \in Nat /\ call[c].nSleep \in Nat
    /\ attempt[c] \in Nat

Init ==
  /\ call = [c \in {1} |-> Idle]
  /\ attempt = [c \in {1} |-> 0]
  /\ abandoned = [c \in {1} |-> <<>>]
  /\ poll = PollIdle
  /\ iter = IterIdle
  /\ built = BuiltIdle
  /\ snake = SnakeIdle
  /\ client = ClientIdle
  /\ wire = WireIdle
  /\ backoff = BackoffIdle

InitConc ==
  /\ call = [c \in 1..NumConcurrent |-> Idle]
  /\ attempt = [c \in 1..NumConcurrent |-> 0]
  /\ abandoned = [c \in 1..NumConcurrent |-> <<>>]
  /\ poll = PollIdle
  /\ iter = IterIdle
  /\ built = BuiltIdle
  /\ snake = SnakeIdle
  /\ client = ClientIdle
  /\ wire = WireIdle
  /\ backoff = BackoffIdle

\* request(url, apiKey, options) is invoked: the defaults, the locals, and the
\* first pass through the loop head up to the awaited fetch
Call(c, retryOpt, maxRetriesOpt) ==
  /\ call[c].pc \in {"idle", "done"}
  /\ LET rec == [Idle EXCEPT
                   !.retry = IF retryOpt = <<>> THEN TRUE ELSE retryOpt[1],
                   !.maxRetries = IF maxRetriesOpt = <<>>
                                  THEN DEFAULT_RETRY_CONFIG.maxRetries
                                  ELSE maxRetriesOpt[1],
                   !.maxRetriesOpt = maxRetriesOpt]
     IN  /\ attempt' = [attempt EXCEPT ![AttemptCell(c)] = 0]
         /\ call' = [call EXCEPT ![c] = LoopHead(rec, 0)]
  /\ abandoned' = [abandoned EXCEPT ![c] = <<>>]
  /\ UNCHANGED pollerVars

\* the awaited fetch settles with outcome o: the rest of the iteration runs up
\* to a return, a throw or the awaited sleep
Respond(c, o, random) ==
  /\ call[c].pc = "fetching"
  /\ LET rec == call[c]
         st == Iteration(rec.retry, rec.maxRetries, attempt[AttemptCell(c)], o, random)
     IN  call' = [call EXCEPT ![c] =
           [rec EXCEPT !.pc = IF st.act = "sleep" THEN "sleeping" ELSE "done",
                       !.step = st,
                       !.last = o,
                       !.nSleep = IF st.act = "sleep" THEN @ + 1 ELSE @,
                       !.only5xx = @ /\ o.kind = "response" /\ o.status >= 500]]
  /\ UNCHANGED <<attempt, abandoned, pollerVars>>

\* the awaited sleep ends: attempt++, lastError in the catch block, continue
Wake(c) ==
  /\ call[c].pc = "sleeping"
  /\ LET rec == call[c]
         kind == SleepKind(rec.last)
         att == NextAttempt(attempt[AttemptCell(c)], kind)
         rec2 == [rec EXCEPT
                    !.lastError = IF rec.step.caught # <<>>
                                  THEN <<AsError(rec.step.caught[1])>> ELSE @,
                    !.retries429 = IF kind = "429" THEN @ + 1 ELSE @,
                    !.retries5xx = IF kind = "5xx" THEN @ + 1 ELSE @,
                    !.retriesNet = IF kind = "net" THEN @ + 1 ELSE @]
     IN  /\ attempt' = [attempt EXCEPT ![AttemptCell(c)] = att]
         /\ call' = [call EXCEPT ![c] = LoopHead(rec2, att)]
  /\ UNCHANGED <<abandoned, pollerVars>>

Next ==
  \E c \in DOMAIN call :
    \/ \E ro \in RetryOpts, mo \in MaxRetriesOpts : Call(c, ro, mo) /\ UNCHANGED wire
    \/ \E o \in Outcomes, r \in RandomDraws : Respond(c, o, r) /\ UNCHANGED wire
    \/ Wake(c) /\ UNCHANGED wire

Spec == Init /\ [][Next]_vars

NextConc ==
  \E c \in DOMAIN call :
    \/ \E ro \in ConcRetryOpts, mo \in ConcMaxRetriesOpts : Call(c, ro, mo) /\ UNCHANGED wire
    \/ \E o \in ConcOutcomes, r \in ConcRandomDraws : Respond(c, o, r) /\ UNCHANGED wire
    \/ Wake(c) /\ UNCHANGED wire

SpecConc == InitConc /\ [][NextConc]_vars

(***************************************************************************)
(* A caller that gives up on a call it awaits.                             *)
(***************************************************************************)
\* the caller stops waiting for request() while request() sleeps (it lost a
\* Promise.race, or dropped the promise).  request() takes no signal and
\* sleep() keeps no handle on its timer, so nothing of the call changes; the
\* number of fetches made so far is noted.
Abandon(c) ==
  /\ call[c].pc = "sleeping"
  /\ abandoned[c] = <<>>
  /\ abandoned' = [abandoned EXCEPT ![c] = <<call[c].nFetch>>]
  /\ UNCHANGED <<call, attempt, pollerVars>>

NextAbandon ==
  \E c \in DOMAIN call :
    \/ \E ro \in ConcRetryOpts, mo \in MaxRetriesOpts : Call(c, ro, mo) /\ UNCHANGED wire
    \/ \E o \in ConcOutcomes, r \in ConcRandomDraws : Respond(c, o, r) /\ UNCHANGED wire
    \/ Wake(c) /\ UNCHANGED wire
    \/ Abandon(c) /\ UNCHANGED wire

SpecAbandon == Init /\ [][NextAbandon]_vars

(***************************************************************************)
(* waitForDeepResearch as a process.                                       *)
(***************************************************************************)
InitPoll == Init

\* waitForDeepResearch(jobId, options) is invoked: the defaults, startTime,
\* and the loop up to the first awaited status fetch
PollCall(opts) ==
  /\ poll.pc \in {"idle", "done"}
  /\ poll' = [PollIdle EXCEPT
               !.pc = "fetching",
               !.pollInterval = IF opts[1] = <<>> THEN 2000 ELSE opts[1][1],
               !.timeout = IF opts[2] = <<>> THEN 300000 ELSE opts[2][1],
               !.nFetch = 1]
  /\ UNCHANGED <<requestVars, iter, backoff, utilVars>>

\* the awaited status fetch settles after duration ms: the rest of the
\* iteration runs up to a return, a throw or the awaited sleep
PollRespond(fetched, duration) ==
  /\ poll.pc = "fetching"
  /\ LET now == poll.now + duration
         st == PollIteration(fetched, now - poll.startTime, poll.timeout, poll.pollInterval)
     IN  poll' = [poll EXCEPT
                    !.pc = IF st.act = "sleep" THEN "sleeping" ELSE "done",
                    !.now = now,
                    !.step = st,
                    !.last = fetched,
                    !.nSleep = IF st.act = "sleep" THEN @ + 1 ELSE @,
                    !.sleeps = IF st.act = "sleep" THEN Append(@, st.ms.n) ELSE @,
                    !.log = Append(@, IF fetched.act = "return"
                                      THEN StatusOf(fetched.value).s ELSE "raised")]
  /\ UNCHANGED <<requestVars, iter, backoff, utilVars>>

\* the awaited sleep ends: the next status fetch is issued
PollWake ==
  /\ poll.pc = "sleeping"
  /\ poll' = [poll EXCEPT
               !.pc = "fetching", !.now = @ + poll.step.ms.n, !.nFetch = @ + 1,
               !.lateFetches =
                 IF poll.now + poll.step.ms.n - poll.startTime > poll.timeout
                 THEN @ + 1 ELSE @]
  /\ UNCHANGED <<requestVars, iter, backoff, utilVars>>

NextPoll ==
  \/ \E opts \in PollOptions : PollCall(opts)
  \/ \E f \in StatusFetches, d \in FetchDurations : PollRespond(f, d)
  \/ PollWake

\* an awaited promise settles: the status fetch ends and the timer fires
SpecPoll == InitPoll /\ [][NextPoll]_vars /\ WF_vars(NextPoll)

(***************************************************************************)
(* searchPeopleAll and its consumer as a process.                          *)
(***************************************************************************)
InitPage == Init

\* client.searchPeopleAll(options): the generator object is made; none of
\* the body runs before the first next()
IterCall(input, mode, optOffset, optSearchId) ==
  /\ iter.pc \in {"idle", "done"}
  /\ iter' = [IterIdle EXCEPT !.pc = "created", !.total = input[1], !.mode = mode,
                             !.limitOpt = input[2], !.optOffset = optOffset,
                             !.optSearchId = optSearchId]
  /\ UNCHANGED <<requestVars, poll, backoff, utilVars>>

\* the consumer asks for the next item
IterNext ==
  /\ \/ /\ iter.pc = "created"
        /\ iter' = IssueRequest([iter EXCEPT
                      !.limit = IF iter.limitOpt = <<>> THEN 30 ELSE iter.limitOpt[1]])
     \/ /\ iter.pc = "yielded"
        /\ iter' = Advance(iter)
  /\ UNCHANGED <<requestVars, poll, backoff, utilVars>>

\* the awaited searchPeople settles with a page of n items, and the body
\* runs on to the first yield, the next await or the end
PageRespond(n, searchId) ==
  /\ iter.pc = "fetching"
  /\ n \in PageSizes(iter.mode, iter.total, iter.req)
  /\ iter' = Advance([iter EXCEPT !.pageSearchId = searchId,
                                  !.pageStart = iter.req.offset,
                                  !.pageLen = n, !.index = 0,
                                  !.received = @ + n, !.inflight = @ - 1])
  /\ UNCHANGED <<requestVars, poll, backoff, utilVars>>

\* the awaited searchPeople raises: the generator ends with that error
PageFail ==
  /\ iter.pc = "fetching"
  /\ iter' = [iter EXCEPT !.pc = "done", !.ended = "threw", !.inflight = @ - 1]
  /\ UNCHANGED <<requestVars, poll, backoff, utilVars>>

\* the consumer breaks out of its loop with the item it was handed
IterReturn ==
  /\ iter.pc = "yielded"
  /\ iter' = GeneratorReturn(iter)
  /\ UNCHANGED <<requestVars, poll, backoff, utilVars>>

NextPage ==
  \/ \E input \in PageInputs, mode \in {"exact", "any"}, optOffset \in CallerOffsets,
        optSearchId \in CallerSearchIds :
       IterCall(input, mode, optOffset, optSearchId)
  \/ IterNext
  \/ \E n \in 0..(MaxTotal + 1) \cup {30}, id \in SearchIds : PageRespond(n, id)
  \/ PageFail
  \/ IterReturn

\* the consumer keeps asking or leaves, and an awaited request settles
SpecPage == InitPage /\ [][NextPage]_vars /\ WF_vars(NextPage)

(***************************************************************************)
(* calculateBackoff as a process.                                          *)
(***************************************************************************)
\* the arguments and the Math.random() draw of one call
InitBackoff ==
  /\ call = [c \in {1} |-> Idle]
  /\ attempt = [c \in {1} |-> 0]
  /\ abandoned = [c \in {1} |-> <<>>]
  /\ poll = PollIdle
  /\ iter = IterIdle
  /\ built = BuiltIdle
  /\ snake = SnakeIdle
  /\ client = ClientIdle
  /\ wire = WireIdle
  /\ backoff \in {[BackoffIdle EXCEPT !.att = att, !.initialDelayMs = config[1],
                                      !.maxDelayMs = config[2], !.random = random] :
                    att \in 0..BackoffMaxAttempt, config \in BackoffConfigs,
                    random \in FineRandomDraws}

\* calculateBackoff(att, initialDelayMs, maxDelayMs) runs
BackoffCompute ==
  /\ backoff.pc = "idle"
  /\ backoff' = [backoff EXCEPT
                   !.pc = "computed",
                   !.result = calculateBackoff(backoff.att, backoff.initialDelayMs,
                                               backoff.maxDelayMs, backoff.random)]
  /\ UNCHANGED <<requestVars, poll, iter, utilVars>>

NextBackoff == BackoffCompute

SpecBackoff == InitBackoff /\ [][NextBackoff]_vars

(***************************************************************************)
(* buildUrl as a process.                                                  *)
(***************************************************************************)
InitUrl ==
  /\ call = [c \in {1} |-> Idle]
  /\ attempt = [c \in {1} |-> 0]
  /\ abandoned = [c \in {1} |-> <<>>]
  /\ poll = PollIdle
  /\ iter = IterIdle
  /\ backoff = BackoffIdle
  /\ snake = SnakeIdle
  /\ client = ClientIdle
  /\ wire = WireIdle
  /\ built \in {[BuiltIdle EXCEPT !.baseUrl = b, !.path = p, !.params = ps] :
                  b \in BaseUrls, p \in Paths,
                  ps \in {<<>>} \cup {<<m>> : m \in ParamMappings}}

\* buildUrl(baseUrl, path, params) runs
BuildUrl ==
  /\ built.pc = "idle"
  /\ built' = [built EXCEPT !.pc = "built",
                            !.url = buildUrl(built.baseUrl, built.path, built.params)]
  /\ UNCHANGED <<requestVars, poll, iter, backoff, snake, client, wire>>

NextUrl == BuildUrl

SpecUrl == InitUrl /\ [][NextUrl]_vars

(***************************************************************************)
(* toSnakeCase as a process.                                               *)
(***************************************************************************)
InitSnake ==
  /\ call = [c \in {1} |-> Idle]
  /\ attempt = [c \in {1} |-> 0]
  /\ abandoned = [c \in {1} |-> <<>>]
  /\ poll = PollIdle
  /\ iter = IterIdle
  /\ backoff = BackoffIdle
  /\ built = BuiltIdle
  /\ client = ClientIdle
  /\ wire = WireIdle
  /\ snake \in {[SnakeIdle EXCEPT !.obj = o] : o \in InputObjects}

\* toSnakeCase(obj) runs
ToSnakeCase ==
  /\ snake.pc = "idle"
  /\ LET out == toSnakeCase(snake.obj) IN
     snake' = [snake EXCEPT !.pc = "converted", !.result = out.result,
                            !.objAfter = out.obj]
  /\ UNCHANGED <<requestVars, poll, iter, backoff, built, client, wire>>

NextSnake == ToSnakeCase

SpecSnake == InitSnake /\ [][NextSnake]_vars

(***************************************************************************)
(* One CladoClient and its environment as a process.                       *)
(***************************************************************************)
InitClient ==
  /\ Init
  /\ client.pc = "idle"
  /\ wire = WireIdle

\* something in the process sets or deletes CLADO_API_KEY
SetEnv(value) ==
  /\ client.env # value
  /\ client' = [client EXCEPT !.env = value]
  /\ UNCHANGED <<requestVars, poll, iter, backoff, built, snake, wire>>

\* new CladoClient({ apiKey })
Construct(apiKeyOpt) ==
  /\ client.pc \in {"idle", "failed"}
  /\ LET r == ResolveApiKey(apiKeyOpt, client.env) IN
     client' = [client EXCEPT
                  !.pc = IF r.ok THEN "ready" ELSE "failed",
                  !.apiKey = r.apiKey,
                  !.apiKeyOpt = apiKeyOpt,
                  !.envAtConstruction = client.env,
                  !.envReads = r.reads,
                  !.error = IF r.ok THEN <<>>
                            ELSE <<"API key not provided and CLADO_API_KEY env var is not set">>,
                  !.sent = <<>>]
  /\ UNCHANGED <<requestVars, poll, iter, backoff, built, snake, wire>>

\* a method of the client calls request(url, this.#apiKey, options)
Invoke(operation) ==
  /\ client.pc = "ready"
  /\ Len(client.sent) < MaxCalls
  /\ client' = [client EXCEPT
                  !.sent = Append(@, [operation |-> operation[1], method |-> operation[2],
                                      headers |-> RequestHeaders(client.apiKey,
                                                                 operation[3], <<>>)])]
  /\ UNCHANGED <<requestVars, poll, iter, backoff, built, snake, wire>>

NextClient ==
  \/ \E value \in EnvValues : SetEnv(value)
  \/ \E apiKeyOpt \in ApiKeyOpts : Construct(apiKeyOpt)
  \/ \E operation \in Operations : Invoke(operation)

SpecClient == InitClient /\ [][NextClient]_vars

(***************************************************************************)
(* request() together with what it sends: the engine's steps, each fetch   *)
(* recorded with its method, headers and body.                             *)
(***************************************************************************)
InitOps == Init

\* request(url, apiKey, options): the headers are built once, before the loop
OpCall(apiKey, options) ==
  /\ Call(1, options.retryOpt, options.maxRetriesOpt)
  /\ LET requestHeaders == RequestHeaders(apiKey, options.hasBody, options.headers)
     IN  wire' = [options |-> options, apiKey |-> apiKey,
                  requestHeaders |-> requestHeaders,
                  sent |-> IF call'[1].pc = "fetching"
                           THEN <<FetchInit(options.method, requestHeaders,
                                            options.hasBody)>>
                           ELSE <<>>,
                  onlyTransient |-> TRUE]

OpRespond(o, random) ==
  /\ Respond(1, o, random)
  /\ wire' = [wire EXCEPT !.onlyTransient =
                @ /\ (o.kind = "reject" \/ (o.kind = "response" /\ o.status >= 500))]

\* the sleep ends; the next iteration fetches with the same init
OpWake ==
  /\ Wake(1)
  /\ wire' = [wire EXCEPT !.sent =
                IF call'[1].pc = "fetching"
                THEN Append(@, FetchInit(wire.options.method, wire.requestHeaders,
                                         wire.options.hasBody))
                ELSE @]

NextOps ==
  \/ \E apiKey \in ApiKeys, operation \in Operations :
       OpCall(apiKey, ClientOptions(operation))
  \/ \E apiKey \in ApiKeys, options \in DirectOptions : OpCall(apiKey, options)
  \/ \E o \in ConcOutcomes, r \in ConcRandomDraws : OpRespond(o, r)
  \/ OpWake

SpecOps == InitOps /\ [][NextOps]_vars

(***************************************************************************)
(* Properties of request().                                                *)
(***************************************************************************)
Retries(rec) == rec.retries429 + rec.retries5xx + rec.retriesNet
Is5xx(o) == o.kind = "response" /\ o.status >= 500
Contains(message, piece) == \E i \in 1..Len(message) : message[i] = piece

\* C1: with retrying enabled and maxRetries >= 0, a call whose every response
\* is a 5xx makes exactly maxRetries + 1 attempts (4 with the default) and then
\* raises a plain CladoError with the status of the last response.
C1_ExhaustedServerErrors ==
  \A c \in DOMAIN call :
    LET rec == call[c] IN
    (rec.pc = "done" /\ rec.retry /\ rec.maxRetries >= 0 /\ rec.only5xx) =>
      /\ rec.nFetch = rec.maxRetries + 1
      /\ (rec.maxRetriesOpt = <<>> => rec.nFetch = 4)
      /\ rec.step.act = "throw"
      /\ rec.step.err.class = "CladoError"
      /\ Is5xx(rec.last)
      /\ rec.step.err.status = rec.last.status

C1_Witness ==
  \E c \in DOMAIN call :
    /\ call[c].pc = "done" /\ call[c].retry /\ call[c].only5xx
    /\ call[c].maxRetriesOpt = <<>> /\ call[c].nFetch = 4
    /\ call[c].step.err.status = 503

\* C2: a call that reached the network makes at most maxRetries + 1 attempts
\* and at most maxRetries retries, the retries after 429, after 5xx and after
\* transport failures all counted by the one attempt counter.
C2_SharedRetryBudget ==
  \A c \in DOMAIN call :
    LET rec == call[c] IN
    rec.nFetch >= 1 =>
      /\ rec.nFetch <= rec.maxRetries + 1
      /\ rec.nSleep <= rec.maxRetries
      /\ Retries(rec) <= rec.maxRetries
      /\ attempt[c] = Retries(rec)
      /\ rec.nFetch = Retries(rec) + 1

C2_Witness ==
  \E c \in DOMAIN call :
    /\ call[c].pc = "done"
    /\ call[c].retries429 >= 1 /\ call[c].retries5xx >= 1 /\ call[c].retriesNet >= 1
    /\ call[c].nFetch = call[c].maxRetries + 1
    /\ call[c].step.act = "throw"

ClassOf(status) ==
  CASE status = 401 -> "CladoAuthError"
    [] status = 404 -> "CladoNotFoundError"
    [] status = 422 -> "CladoValidationError"
    [] status = 429 -> "CladoRateLimitError"
    [] OTHER -> "CladoError"

\* C3: once a 401, 404 or 422 response is seen the call has raised the
\* matching typed error; no sleep and no attempt follows that response.
C3_NonTransientImmediate ==
  \A c \in DOMAIN call :
    LET rec == call[c] IN
    (rec.last.kind = "response" /\ rec.last.status \in {401, 404, 422}) =>
      /\ rec.pc = "done"
      /\ rec.step.act = "throw"
      /\ rec.step.err.class = ClassOf(rec.last.status)
      /\ rec.step.err.status = rec.last.status
      /\ rec.nSleep = rec.nFetch - 1

C3_Witness ==
  \E c \in DOMAIN call :
    /\ call[c].pc = "done" /\ call[c].last.status = 404
    /\ call[c].nFetch = 2 /\ call[c].retry /\ attempt[c] < call[c].maxRetries
    /\ call[c].step.err.class = "CladoNotFoundError"

\* C4: a finished call has either returned, its last exchange a 2xx response,
\* or raised an instance of CladoError; it never raises anything else.
C4_ReturnOrCladoError ==
  \A c \in DOMAIN call :
    LET rec == call[c] IN
    rec.pc = "done" =>
      \/ rec.step.act = "return" /\ Ok(rec.last)
      \/ rec.step.act = "throw" /\ IsCladoError(rec.step.err)

C4_Witness ==
  \E c \in DOMAIN call :
    /\ call[c].pc = "done" /\ call[c].lastError # <<>>
    /\ call[c].step.act = "throw" /\ call[c].last.kind = "reject"

C6_RetryAfterDefault ==
  \A c \in DOMAIN call :
    LET rec == call[c]
        h == rec.last.retryAfter
        expected == IF ~h.present \/ parseInt(h.value).nan THEN Num(60) ELSE parseInt(h.value)
    IN
    (rec.last.kind = "response" /\ rec.last.status = 429) =>
      /\ rec.pc = "sleeping" => rec.step.ms = Times(expected, 1000)
      /\ rec.pc = "done" => rec.step.err.retryAfter = expected

\* C7: a 2xx response whose non-empty body is not JSON makes the call raise a
\* plain CladoError with the status of that response.
C7_ParseFailureKeepsStatus ==
  \A c \in DOMAIN call :
    LET rec == call[c] IN
    (Ok(rec.last) /\ rec.last.bodyOk /\ rec.last.body \in BadBodies
       /\ rec.pc \in {"sleeping", "done"}) =>
      /\ rec.pc = "done"
      /\ rec.step.act = "throw"
      /\ rec.step.err.class = "CladoError"
      /\ rec.step.err.status = rec.last.status

\* C8: at a 2xx response with an empty body the call returns an empty object,
\* and with the JSON text of a value it returns that value; no sleep and no
\* attempt follows.
C8_SuccessReturns ==
  \A c \in DOMAIN call :
    LET rec == call[c] IN
    (Ok(rec.last) /\ rec.last.bodyOk) =>
      /\ rec.last.body = <<>> =>
           /\ rec.pc = "done" /\ rec.step = Return(JObj(<<>>, <<>>))
           /\ rec.nSleep = rec.nFetch - 1
      /\ \A v \in OkPayloads :
           rec.last.body = JSONstringify(v) =>
             /\ rec.pc = "done" /\ rec.step = Return(v)
             /\ rec.nSleep = rec.nFetch - 1

C8_Witness ==
  \E c \in DOMAIN call :
    /\ call[c].pc = "done" /\ call[c].nFetch = 3
    /\ call[c].step = Return(JObj(<<"total">>, <<JNum(1)>>))

\* C9: after a transport failure the call sleeps calculateBackoff(attempt,
\* 1000, 30000) when retrying is enabled and attempt < maxRetries; otherwise it
\* has raised a CladoError with status 0 whose message names a network error
\* and holds the description of the failure.
C9_NetworkFailure ==
  \A c \in DOMAIN call :
    LET rec == call[c]
        unjittered == 1000 * Pow2(attempt[c])
    IN
    (rec.last.kind = "reject" /\ rec.pc \in {"sleeping", "done"}) =>
      IF rec.retry /\ attempt[c] < rec.maxRetries
      THEN /\ rec.pc = "sleeping"
           /\ \E r \in RandomDraws :
                rec.step.ms = Num(calculateBackoff(attempt[c], 1000, 30000, r))
           /\ 10 * rec.step.ms.n >= 9 * unjittered
           /\ 10 * rec.step.ms.n <= 11 * unjittered
           /\ rec.step.ms.n <= 30000
      ELSE /\ rec.pc = "done"
           /\ rec.step.act = "throw"
           /\ rec.step.err.class = "CladoError"
           /\ rec.step.err.status = 0
           /\ Contains(rec.step.err.message, "Network error: ")
           /\ Contains(rec.step.err.message, rec.last.err.message[1])

C9_Witness ==
  \E c \in DOMAIN call :
    /\ call[c].pc = "done" /\ call[c].last.kind = "reject" /\ call[c].retry
    /\ call[c].nFetch = 3 /\ call[c].retriesNet = 2
    /\ call[c].step.err.status = 0

\* C10: with several calls interleaved at every await, what each call does
\* with a response is what its own options, its own number of retries and
\* that response give, and each call makes at most its own maxRetries + 1
\* attempts.
C10_CallsIndependent ==
  \A c \in DOMAIN call :
    LET rec == call[c] IN
    /\ rec.nFetch <= rec.maxRetries + 1
    /\ rec.pc = "fetching" => rec.nFetch = Retries(rec) + 1
    /\ (rec.pc \in {"sleeping", "done"} /\ rec.nFetch >= 1) =>
         \E r \in ConcRandomDraws :
           rec.step = Iteration(rec.retry, rec.maxRetries, Retries(rec), rec.last, r)

C10_Witness ==
  \E c1, c2 \in DOMAIN call :
    /\ c1 # c2
    /\ call[c1].pc = "fetching" /\ call[c1].nFetch = 2
    /\ call[c2].pc = "done" /\ call[c2].nFetch = 1 /\ call[c2].retry
    /\ call[c2].maxRetries = 0 /\ call[c2].last.status = 500
    /\ call[c2].step.act = "throw"


(***************************************************************************)
(* Properties of waitForDeepResearch.                                      *)
(***************************************************************************)
NonTerminal == {"pending", "searching", "in_progress"}

\* the pieces of part appear in whole, next to each other and in order
ContainsSeq(whole, part) ==
  \E i \in 0..(Len(whole) - Len(part)) :
    \A j \in 1..Len(part) : whole[i + j] = part[j]

\* C11: the poller returns the payload of the first fetch whose status is
\* "completed" without raising (every earlier fetch was non-terminal and had
\* not timed out, or the poller would have ended there); for the statuses
\* pending, in_progress, completed it makes exactly 3 fetches and 2 sleeps of
\* pollInterval and returns the third payload.
C11_CompletedReturns ==
  /\ \A i \in 1..Len(poll.log) :
       poll.log[i] = "completed" =>
         /\ i = Len(poll.log)
         /\ poll.pc = "done"
         /\ poll.step = Return(poll.last.value)
         /\ StatusOf(poll.step.value) = JStr("completed")
         /\ poll.nFetch = i
         /\ poll.nSleep = i - 1
         /\ \A k \in 1..(i - 1) : poll.log[k] \notin {"completed", "failed", "raised"}
  /\ poll.log = <<"pending", "in_progress", "completed">> =>
       /\ poll.nFetch = 3
       /\ poll.sleeps = <<poll.pollInterval, poll.pollInterval>>
       /\ poll.step.act = "return"
       /\ Field(poll.step.value, "total") = JNum(1)

C11_Witness ==
  /\ poll.pc = "done"
  /\ poll.log = <<"pending", "in_progress", "completed">>
  /\ poll.step.act = "return"
  /\ poll.now - poll.startTime > poll.timeout

\* C12: a fetch with status "failed" makes the poller raise a CladoError with
\* status 500 whose message holds the server's error text, or "Deep research
\* job failed" when the payload has none; no further fetch follows and the
\* failed payload is not returned.
C12_FailedRaises ==
  \A i \in 1..Len(poll.log) :
    poll.log[i] = "failed" =>
      /\ i = Len(poll.log)
      /\ poll.pc = "done"
      /\ poll.nFetch = i
      /\ poll.step.act = "throw"
      /\ poll.step.value = Undefined
      /\ poll.step.err.class = "CladoError"
      /\ poll.step.err.status = 500
      /\ LET error == Field(poll.last.value, "error") IN
         IF error.t = "str"
         THEN Contains(poll.step.err.message, error.s)
         ELSE Contains(poll.step.err.message, "Deep research job failed")

C12_Witness ==
  /\ poll.pc = "done"
  /\ Len(poll.log) >= 2
  /\ poll.log[Len(poll.log)] = "failed"
  /\ Field(poll.last.value, "error") = JStr("x")
  /\ poll.step.act = "throw"

\* C13: when every status fetch gives pending, searching or in_progress, the
\* poller keeps polling only while the elapsed time is within the timeout, and
\* it ends, by raising a CladoError with status 408 whose message names the
\* timeout; it does not poll forever.
C13_TimeoutEnds ==
  /\ [](poll.pc = "sleeping" => poll.now - poll.startTime <= poll.timeout)
  /\ [](poll.pc = "done" /\ (\A i \in 1..Len(poll.log) : poll.log[i] \in NonTerminal) =>
          /\ poll.step.act = "throw"
          /\ poll.step.err.class = "CladoError"
          /\ poll.step.err.status = 408
          /\ ContainsSeq(poll.step.err.message, Dec(poll.timeout) \o <<"ms">>)
          /\ poll.now - poll.startTime > poll.timeout)
  /\ (poll.pc \in {"fetching", "sleeping"} ~> poll.pc = "done")

C13_Witness ==
  /\ poll.pc = "done"
  /\ Len(poll.log) = 3
  /\ \A i \in 1..Len(poll.log) : poll.log[i] \in NonTerminal
  /\ poll.step.act = "throw"
  /\ poll.step.err.status = 408


(***************************************************************************)
(* Properties of searchPeopleAll.                                          *)
(***************************************************************************)
\* the items 1 .. n in server order
Positions(n) == [i \in 1..n |-> i]

CeilDiv(a, b) == (a + b - 1) \div b

\* C14: against a server with a fixed total T that answers offset o with the
\* min(limit, T - o) items from o on, an iteration with limit >= 1 yields the
\* items in server order, each once, and when it has run to its end it has
\* yielded exactly the T items in max(1, ceil(T / limit)) page requests: 31
\* items in 2 requests for T = 31, limit = 30.
C14_AllItemsOnce ==
  iter.mode = "exact" /\ iter.pc \notin {"idle", "created"} /\ iter.limit >= 1 =>
    /\ iter.yielded = Positions(Len(iter.yielded))
    /\ iter.nReq <= Max(1, CeilDiv(iter.total, iter.limit))
    /\ iter.nReq < MaxRequests
    /\ iter.ended = "complete" =>
         /\ iter.yielded = Positions(iter.total)
         /\ iter.nReq = Max(1, CeilDiv(iter.total, iter.limit))
         /\ iter.total = 31 /\ iter.limit = 30 => iter.nReq = 2

C14_Witness ==
  /\ iter.mode = "exact" /\ iter.ended = "complete"
  /\ iter.total = 31 /\ iter.limit = 30 /\ iter.limitOpt = <<>>
  /\ iter.optOffset = <<1>>
  /\ Len(iter.yielded) = 31 /\ iter.nReq = 2

\* C15: once the consumer has stopped after a yielded item, the iteration is
\* over: no page request is issued after that point and none is pending.
C15_StopIssuesNothing ==
  iter.stopped =>
    /\ iter.pc = "done"
    /\ iter.nReq = iter.reqAtStop
    /\ iter.inflight = 0

\* the consumer stopped on the last item of a full page with more to come
C15_Witness ==
  /\ iter.stopped
  /\ iter.limit >= 1
  /\ iter.index = iter.pageLen /\ iter.pageLen = iter.limit
  /\ iter.offset + iter.pageLen < iter.total

\* C16: at most one page request is in flight, and a request is in flight
\* only while the generator awaits it, which it does only when every item
\* received so far has been yielded to the consumer and taken.
C16_OnePageAtATime ==
  /\ iter.inflight \in {0, 1}
  /\ (iter.inflight = 1) = (iter.pc = "fetching")
  /\ iter.pc = "fetching" => Len(iter.yielded) = iter.received

C16_Witness ==
  /\ iter.pc = "fetching"
  /\ iter.nReq = 2
  /\ iter.received = 2 /\ Len(iter.yielded) = 2

\* C17: for every limit, 0 included, an iteration that is consumed to its end
\* makes finitely many page requests and ends.
C17_IterationEnds == (iter.pc = "fetching") ~> (iter.pc = "done")


(***************************************************************************)
(* Abandoned calls.                                                        *)
(***************************************************************************)
\* C18: when the caller abandons a request() that is sleeping between
\* attempts, the sleep's timer does not stay scheduled and the call makes no
\* further network attempt.
C18_AbandonStops ==
  \A c \in DOMAIN call :
    abandoned[c] # <<>> =>
      /\ call[c].pc # "sleeping"
      /\ call[c].nFetch = abandoned[c][1]


(***************************************************************************)
(* The error raised for a response.                                        *)
(***************************************************************************)
\* C19: the error request() raises for a final non-2xx response is fixed by
\* the status: CladoAuthError for 401, CladoNotFoundError for 404,
\* CladoValidationError for 422, CladoRateLimitError with its retryAfter for
\* 429, a plain CladoError for any other status, each carrying the status of
\* the response; the error is an instance of CladoError and of no class
\* besides its own and CladoError.
C19_ErrorByStatus ==
  \A c \in DOMAIN call :
    LET rec == call[c]
        e == rec.step.err
    IN
    (rec.pc = "done" /\ rec.last.kind = "response" /\ ~Ok(rec.last)) =>
      /\ rec.step.act = "throw"
      /\ e.class = ClassOf(rec.last.status)
      /\ e.status = rec.last.status
      /\ e.hasRetryAfter = (rec.last.status = 429)
      /\ rec.last.status = 429 => e.retryAfter = RetryAfterOf(rec.last)
      /\ InstanceOf(e, "CladoError") /\ InstanceOf(e, "Error")
      /\ \A cls \in CladoClasses \ {"CladoError", e.class} : ~InstanceOf(e, cls)
      /\ e.class = "CladoError" =>
           \A cls \in CladoClasses \ {"CladoError"} : ~InstanceOf(e, cls)

C19_Witness ==
  \E c \in DOMAIN call :
    /\ call[c].pc = "done" /\ call[c].last.kind = "response"
    /\ call[c].last.status = 422
    /\ call[c].nFetch = 2
    /\ call[c].step.err.class = "CladoValidationError"
    /\ call[c].step.err.status = 422
    /\ ~InstanceOf(call[c].step.err, "CladoAuthError")


(***************************************************************************)
(* Properties of calculateBackoff.                                         *)
(***************************************************************************)
\* C20: with base 1000 and ceiling 30000 the result lies in [900, 1100] for
\* attempt 0, [1800, 2200] for attempt 1 and [3600, 4400] for attempt 2,
\* whatever the jitter draw; and whenever base * 2^attempt exceeds the ceiling
\* the result is at most 1.1 times the ceiling.
C20_BackoffRanges ==
  backoff.pc = "computed" =>
    LET r == backoff.result
        unjittered == backoff.initialDelayMs * Pow2(backoff.att)
    IN
    /\ (backoff.initialDelayMs = 1000 /\ backoff.maxDelayMs = 30000) =>
         /\ backoff.att = 0 => r >= 900 /\ r <= 1100
         /\ backoff.att = 1 => r >= 1800 /\ r <= 2200
         /\ backoff.att = 2 => r >= 3600 /\ r <= 4400
    /\ unjittered > backoff.maxDelayMs => 10 * r <= 11 * backoff.maxDelayMs

C20_Witness ==
  /\ backoff.pc = "computed"
  /\ backoff.att = 10 /\ backoff.initialDelayMs = 1000 /\ backoff.maxDelayMs = 5000
  /\ backoff.random = 995
  /\ backoff.result <= 5500


(***************************************************************************)
(* Properties of buildUrl.                                                 *)
(***************************************************************************)
\* the entries buildUrl was given, none when the mapping was left out
EntriesOf(b) == IF b.params = <<>> THEN <<>> ELSE b.params[1]

\* where the pairs of a key start in a URL: the key right after "?" or "&"
\* and right before "="
OccurrencesOf(url, key) ==
  {i \in 2..(Len(url) - 1) : url[i] = key /\ url[i + 1] = "=" /\ url[i - 1] \in {"?", "&"}}

\* the values a key has in a URL, in order (values of one piece; "" if none)
RECURSIVE ValuesFrom(_, _, _)
ValuesFrom(url, key, i) ==
  IF i > Len(url) - 1 THEN <<>>
  ELSE IF i \in OccurrencesOf(url, key)
       THEN <<IF i + 2 <= Len(url) /\ url[i + 2] # "&" THEN url[i + 2] ELSE "">>
            \o ValuesFrom(url, key, i + 1)
       ELSE ValuesFrom(url, key, i + 1)

HasPiece(url, pieces) == \E i \in 1..Len(url) : url[i] \in pieces

\* C21: with no parameter mapping, or a mapping without keys, buildUrl
\* returns the base URL followed by the path, and no "?".
C21_NoParamsConcatenation ==
  (built.pc = "built" /\ EntriesOf(built) = <<>>) =>
    /\ built.url = built.baseUrl \o built.path
    /\ ~HasPiece(built.url, {"?"})

C23_DefinedAlwaysAppears ==
  built.pc = "built" =>
    \A k \in 1..Len(EntriesOf(built)) :
      LET key == EntriesOf(built)[k][1]
          value == EntriesOf(built)[k][2]
      IN  IF value.t \in {"undefined", "null"}
          THEN OccurrencesOf(built.url, key) = {}
          ELSE OccurrencesOf(built.url, key) # {}

\* C23, amended: a parameter whose value is undefined or null does not appear
\* in the URL, as a key or as the text "null" or "undefined", and every
\* parameter with a defined value other than an empty array appears.
C23_AbsentOmitted ==
  built.pc = "built" =>
    /\ ~HasPiece(built.url, {"null", "undefined"})
    /\ \A k \in 1..Len(EntriesOf(built)) :
         LET key == EntriesOf(built)[k][1]
             value == EntriesOf(built)[k][2]
         IN  IF value.t \in {"undefined", "null"} \/ value = JArr(<<>>)
             THEN OccurrencesOf(built.url, key) = {}
             ELSE OccurrencesOf(built.url, key) # {}

C23_Witness ==
  /\ built.pc = "built"
  /\ EntriesOf(built) = <<<<"query", JStr("test")>>, <<"companies", JNull>>>>
  /\ built.url = built.baseUrl \o built.path \o <<"?", "query", "=", "test">>


(***************************************************************************)
(* Properties of toSnakeCase.                                              *)
(***************************************************************************)
HasEntry(obj, key, value) == \E i \in 1..Len(obj) : obj[i] = <<key, value>>

\* C24: every input key of the translation table appears in the result under
\* its snake_case name and every other input key under its own name, each
\* with the input's value, undefined included; the input is left as it was.
C24_KeysTranslated ==
  snake.pc = "converted" =>
    /\ snake.objAfter = snake.obj
    /\ \A i \in 1..Len(snake.obj) :
         LET key == snake.obj[i][1]
             value == snake.obj[i][2]
         IN  HasEntry(snake.result, IF InTable(key) THEN TableName(key) ELSE key, value)


(***************************************************************************)
(* Properties of CladoClient.                                              *)
(***************************************************************************)
\* a key that counts as given: present and not empty
GivenKey(opt) == opt # <<>> /\ opt[1] # ""

\* C25: a client holds one credential, fixed by the constructor: the explicit
\* apiKey when one is given, else the value CLADO_API_KEY had at construction,
\* read once and only then; the constructor raises an error with "API key not
\* provided" exactly when neither exists; every request of the client carries
\* Bearer <that credential>, whatever the variable holds later.
C25_OneCredential ==
  /\ client.pc = "ready" =>
       /\ GivenKey(client.apiKeyOpt) \/ GivenKey(client.envAtConstruction)
       /\ client.apiKey = IF GivenKey(client.apiKeyOpt) THEN client.apiKeyOpt[1]
                          ELSE client.envAtConstruction[1]
       /\ client.envReads = IF GivenKey(client.apiKeyOpt) THEN 0 ELSE 1
       /\ \A i \in 1..Len(client.sent) :
            HasEntry(client.sent[i].headers, "Authorization", <<"Bearer ", client.apiKey>>)
  /\ client.pc = "failed" =>
       /\ ~GivenKey(client.apiKeyOpt) /\ ~GivenKey(client.envAtConstruction)
       /\ client.error = <<"API key not provided and CLADO_API_KEY env var is not set">>
       /\ client.sent = <<>>

C25_Witness ==
  /\ client.pc = "ready"
  /\ client.apiKeyOpt = <<>> /\ client.envAtConstruction = <<"lk_env">>
  /\ client.env = <<"lk_other">>
  /\ Len(client.sent) = 2
  /\ client.sent[1].operation # client.sent[2].operation
  /\ \A i \in 1..2 :
       HasEntry(client.sent[i].headers, "Authorization", <<"Bearer ", "lk_env">>)


(***************************************************************************)
(* More properties of request().                                           *)
(***************************************************************************)
\* C26: a non-2xx response with a status below 500 other than 401, 404, 422
\* and 429 ends the call at once with a plain CladoError carrying that
\* status: no sleep and no attempt follows it, budget or not.
C26_OtherStatusImmediate ==
  \A c \in DOMAIN call :
    LET rec == call[c] IN
    (rec.last.kind = "response" /\ ~Ok(rec.last) /\ rec.last.status < 500
       /\ rec.last.status \notin {401, 404, 422, 429}) =>
      /\ rec.pc = "done"
      /\ rec.step.act = "throw"
      /\ rec.step.err.class = "CladoError"
      /\ rec.step.err.status = rec.last.status
      /\ rec.nSleep = rec.nFetch - 1

C26_Witness ==
  \E c \in DOMAIN call :
    /\ call[c].pc = "done" /\ call[c].last.kind = "response"
    /\ call[c].last.status = 409
    /\ call[c].retry /\ attempt[c] < call[c].maxRetries
    /\ call[c].nFetch = 2 /\ call[c].nSleep = 1
    /\ call[c].step.err.status = 409

\* C27: in a call the attempt counter starts at 0, goes up by exactly 1 when
\* a sleep ends and a retry begins, changes at no other step, and is never
\* above maxRetries; a new call starts at 0 again.
C27_AttemptCounter ==
  /\ [](\A c \in DOMAIN call :
          call[c].pc # "idle" => attempt[c] >= 0 /\ attempt[c] <= call[c].maxRetries)
  /\ [][\A c \in DOMAIN call :
          call'[c] # call[c] =>
            IF call[c].pc \in {"idle", "done"} THEN attempt'[c] = 0
            ELSE IF call[c].pc = "sleeping" THEN attempt'[c] = attempt[c] + 1
            ELSE attempt'[c] = attempt[c]]_vars

\* C28: a 5xx response with retrying enabled and attempt < maxRetries puts
\* the call to sleep for calculateBackoff(attempt, 1000, 30000), attempt
\* being the shared counter (after one 429 retry the wait is about 2000 ms),
\* and the call retries after it; otherwise the call raises a plain
\* CladoError with the status of the response.
C28_ServerErrorBackoff ==
  \A c \in DOMAIN call :
    LET rec == call[c] IN
    (rec.last.kind = "response" /\ rec.last.status >= 500) =>
      /\ rec.pc = "sleeping" =>
           /\ rec.retry /\ attempt[c] < rec.maxRetries
           /\ \E r \in RandomDraws :
                rec.step.ms = Num(calculateBackoff(attempt[c], 1000, 30000, r))
           /\ rec.step.ms.n >= 900 * Pow2(attempt[c])
           /\ rec.step.ms.n <= 1100 * Pow2(attempt[c])
      /\ rec.pc = "fetching" =>
           /\ rec.retries5xx >= 1
           /\ attempt[c] = Retries(rec) /\ rec.nFetch = attempt[c] + 1
      /\ rec.pc = "done" =>
           /\ ~(rec.retry /\ attempt[c] < rec.maxRetries)
           /\ rec.step = Throw(CladoError(rec.last.status, parseErrorResponse(rec.last)))

C28_Witness ==
  \E c \in DOMAIN call :
    /\ call[c].pc = "sleeping" /\ call[c].last.kind = "response"
    /\ call[c].last.status = 503
    /\ call[c].retries429 = 1 /\ attempt[c] = 1
    /\ call[c].step.ms.n >= 1800 /\ call[c].step.ms.n <= 2200

\* C29: with retry = false, or with maxRetries = 0, a call makes exactly one
\* network attempt and never sleeps; it raises CladoRateLimitError for a 429,
\* a plain CladoError with the status for a 5xx, and a CladoError with status
\* 0 for a transport failure.
C29_SingleAttempt ==
  \A c \in DOMAIN call :
    LET rec == call[c] IN
    (rec.pc # "idle" /\ (~rec.retry \/ rec.maxRetries = 0)) =>
      /\ rec.nFetch = 1 /\ rec.nSleep = 0
      /\ (rec.pc = "done" /\ rec.last.kind = "response" /\ rec.last.status = 429) =>
           rec.step.act = "throw" /\ rec.step.err.class = "CladoRateLimitError"
      /\ (rec.pc = "done" /\ rec.last.kind = "response" /\ rec.last.status >= 500) =>
           /\ rec.step.act = "throw" /\ rec.step.err.class = "CladoError"
           /\ rec.step.err.status = rec.last.status
      /\ (rec.pc = "done" /\ rec.last.kind = "reject") =>
           /\ rec.step.act = "throw" /\ rec.step.err.class = "CladoError"
           /\ rec.step.err.status = 0

\* C30: a call raises a CladoError with status 0 only when its final attempt
\* got no HTTP response; when the final attempt got a response, the error
\* raised carries the status of that response.
C30_StatusZeroMeansNoResponse ==
  \A c \in DOMAIN call :
    LET rec == call[c] IN
    (rec.pc = "done" /\ rec.step.act = "throw") =>
      /\ rec.step.err.status = 0 => rec.last.kind # "response"
      /\ rec.last.kind = "response" => rec.step.err.status = rec.last.status


(***************************************************************************)
(* Properties of what request() sends.                                     *)
(***************************************************************************)
\* the value an object holds under a key, <<>> when it has no such key
ValueOf(obj, key) ==
  IF \E i \in 1..Len(obj) : obj[i][1] = key
  THEN <<obj[CHOOSE i \in 1..Len(obj) : obj[i][1] = key][2]>>
  ELSE <<>>

\* C31: every fetch of a call carries Authorization "Bearer <credential>",
\* Accept "application/json" and, exactly when a body is present,
\* Content-Type "application/json", except that a caller-supplied value for
\* any header name, these three included, is the value sent; every attempt of
\* the call carries the same headers.
C31_HeadersSent ==
  \A i \in 1..Len(wire.sent) :
    LET h == wire.sent[i].headers
        caller == wire.options.headers
        Layered(name, own) ==
          IF ValueOf(caller, name) # <<>> THEN ValueOf(caller, name) ELSE own
    IN  /\ ValueOf(h, "Authorization")
             = Layered("Authorization", <<<<"Bearer ", wire.apiKey>>>>)
        /\ ValueOf(h, "Accept") = Layered("Accept", <<<<"application/json">>>>)
        /\ ValueOf(h, "Content-Type")
             = Layered("Content-Type",
                       IF wire.options.hasBody THEN <<<<"application/json">>>>
                       ELSE <<>>)
        /\ \A j \in 1..Len(caller) : ValueOf(h, caller[j][1]) = <<caller[j][2]>>
        /\ Len(h) = Cardinality({h[j][1] : j \in 1..Len(h)})
        /\ h = wire.sent[1].headers
(***************************************************************************)
(* More properties of searchPeopleAll.                                     *)
(***************************************************************************)
\* C32: the first page request carries no search_id and offset 0, whatever
\* searchId or offset is in the caller's options; every later request carries
\* the search_id of the response just before it and an offset equal to the
\* number of items yielded so far; every request carries the same limit.
C32_PageRequests ==
  iter.pc = "fetching" =>
    /\ iter.req.limit = (IF iter.limitOpt = <<>> THEN 30 ELSE iter.limitOpt[1])
    /\ iter.nReq = 1 => iter.req.searchId = <<>> /\ iter.req.offset = 0
    /\ iter.nReq > 1 =>
         /\ iter.req.searchId = <<iter.pageSearchId>>
         /\ iter.req.offset = Len(iter.yielded)

C32_Witness ==
  /\ iter.pc = "fetching"
  /\ iter.nReq = 3
  /\ iter.optSearchId = <<"s0">>
  /\ iter.optOffset = <<1>>
  /\ iter.req = [searchId |-> <<"s2">>, offset |-> 2, limit |-> 1]
(***************************************************************************)
(* More properties of waitForDeepResearch.                                 *)
(***************************************************************************)
\* the poller's own timeout error
TimedOutStep(p) == p.step = Throw(JobTimeoutError(p.timeout))

C37_OneLateFetch ==
  /\ poll.lateFetches <= 1
  /\ poll.pc = "fetching" /\ poll.now - poll.startTime > poll.timeout
       => poll.lateFetches = 1
  /\ poll.pc = "sleeping" => poll.now - poll.startTime <= poll.timeout
  /\ poll.pc \in {"fetching", "done"} => poll.nSleep = poll.nFetch - 1
  /\ poll.pc = "sleeping" => poll.nSleep = poll.nFetch
  /\ Len(poll.sleeps) = poll.nSleep
  /\ \A i \in 1..Len(poll.sleeps) : poll.sleeps[i] = poll.pollInterval

C37_Witness ==
  /\ poll.pc = "done"
  /\ poll.lateFetches = 1
  /\ poll.nFetch = 2
  /\ poll.sleeps = <<1000>>
  /\ TimedOutStep(poll)

\* C38: a status fetch that raises ends the poller with that same error,
\* unchanged: no status fetch and no sleep follows it.
C38_FetchErrorPropagates ==
  \A i \in 1..Len(poll.log) :
    poll.log[i] = "raised" =>
      /\ i = Len(poll.log)
      /\ poll.pc = "done"
      /\ poll.last.act = "throw"
      /\ poll.step = poll.last
      /\ poll.nFetch = i
      /\ poll.nSleep = i - 1

C38_Witness ==
  /\ poll.pc = "done"
  /\ poll.log = <<"pending", "raised">>
  /\ poll.step = Throw(CladoAuthError(Given(<<"Invalid API key">>)))
  /\ poll.now - poll.startTime > poll.timeout
(***************************************************************************)
(* More properties of calculateBackoff.                                    *)
(***************************************************************************)
\* C34: only the un-jittered exponential value is held to the ceiling and
\* the jitter is applied afterwards: when base * 2^attempt exceeds the
\* ceiling, a draw above one half gives a result strictly greater than the
\* ceiling and at most the ceiling plus 10%.
C34_JitterAfterClamp ==
  backoff.pc = "computed" =>
    LET unjittered == backoff.initialDelayMs * Pow2(backoff.att) IN
    unjittered > backoff.maxDelayMs /\ backoff.random > 500 =>
      /\ backoff.result > backoff.maxDelayMs
      /\ 10 * backoff.result <= 11 * backoff.maxDelayMs
(***************************************************************************)
(* More properties of request().                                           *)
(***************************************************************************)
\* C35: in every call the number of sleeps is the number of network
\* attempts minus one: no sleep before the first attempt, one sleep between
\* two consecutive attempts, no sleep after the attempt that ends the call.
C35_SleepsBetweenAttempts ==
  \A c \in DOMAIN call :
    LET rec == call[c] IN
    /\ rec.pc = "fetching" => rec.nSleep = rec.nFetch - 1
    /\ rec.pc = "sleeping" => rec.nSleep = rec.nFetch /\ rec.nFetch >= 1
    /\ rec.pc = "done" => rec.nSleep = rec.nFetch - 1

\* C36: whatever maxRetries is, zero and negative numbers included, a call
\* that has ended made at least one network exchange, and it did not end by
\* the throw that follows the retry loop.
C36_AtLeastOneExchange ==
  \A c \in DOMAIN call :
    LET rec == call[c] IN
    rec.pc = "done" =>
      /\ rec.nFetch >= 1
      /\ rec.last.kind \in {"response", "reject"}
      /\ rec.step # Throw(CladoError(0, <<"Request failed after retries">>))
(***************************************************************************)
(* Properties of the client's POST operations.                             *)
(***************************************************************************)
PostOperations == {"initiateDeepResearch", "cancelDeepResearch", "continueDeepResearch"}

\* C39: the POST operations run under the retry policy of the GET
\* operations, retrying on with maxRetries 3: every fetch of such a call is a
\* POST, and a call whose outcomes are all 5xx responses or transport
\* failures sends the POST 4 times, with 3 sleeps in between, before it
\* raises.
C39_PostRetried ==
  LET rec == call[1] IN
  (rec.pc # "idle" /\ wire.options.operation \in {op[1] : op \in Operations}) =>
    /\ rec.retry /\ rec.maxRetries = DEFAULT_RETRY_CONFIG.maxRetries
    /\ Len(wire.sent) = rec.nFetch
    /\ wire.options.operation \in PostOperations =>
         \A i \in 1..Len(wire.sent) : wire.sent[i].method = "POST"
    /\ (rec.pc = "done" /\ wire.onlyTransient) =>
         /\ Len(wire.sent) = 4
         /\ rec.nSleep = 3
         /\ rec.step.act = "throw"
         /\ rec.step.err.status \in {0, 500}

C39_Witness ==
  /\ call[1].pc = "done"
  /\ wire.options.operation = "initiateDeepResearch"
  /\ wire.onlyTransient
  /\ Len(wire.sent) = 4
  /\ \A i \in 1..4 : wire.sent[i].method = "POST" /\ wire.sent[i].hasBody
  /\ call[1].retries5xx >= 1 /\ call[1].retriesNet >= 1
  /\ call[1].step.act = "throw"
====
